---- MODULE Spec2Model ----
(***************************************************************************)
(* Table-of-contents translation pipeline (batch_03_toc.py, _utils.py,     *)
(* batch_01_cip_parser.py).                                                *)
(*                                                                         *)
(* Text is modelled character by character: a Python str is a sequence of  *)
(* one-character values.  ASCII characters stand for themselves; the       *)
(* non-ASCII characters the code names are written as "<name>":            *)
(*   <di> U+7B2C   <zhang> U+7AE0  <bu> U+90E8    <fen> U+5206             *)
(*   <jie> U+8282  <fu> U+9644     <lu> U+5F55    <lian> U+7EC3            *)
(*   <xi> U+4E60   <ke> U+8BFE     <hou> U+540E   <ying> U+5E94            *)
(*   <yong> U+7528 <colon> U+FF1A  <stop> U+3002  <zhu> U+6CE8             *)
(*   <yi4> U+8BD1  <yuan> U+539F   <wen> U+6587   <jian> U+5EFA            *)
(*   <yi> U+8BAE   <gen> U+6839    <ju> U+636E    <jiu> U+7EA0             *)
(*   <zheng> U+6B63 <bei> U+5907   <shang> U+4E0A <xia> U+4E0B             *)
(*   <wu> U+65E0   <xu> U+9700     <shuo> U+8BF4  <ming> U+660E            *)
(*   <ruo> U+82E5  <wei> U+672A    <que> U+786E   <zhi> U+6307             *)
(*   <shi> U+793A  <an> U+6309     <zhao> U+7167  <dao> U+5BFC             *)
(*   <ru> U+5982   <bu4> U+4E0D    <bi> U+5FC5    <kao> U+8003             *)
(*   <lv> U+8651   <jian3> U+7B80  <hua> U+5316   <wei2> U+4E3A            *)
(*   <n0>..<n10> U+96F6 U+4E00 U+4E8C U+4E09 U+56DB U+4E94 U+516D U+4E03   *)
(*               U+516B U+4E5D U+5341      <liang> U+4E24                  *)
(*   <cheng> U+7A0B <shi2> U+5B9E  <yan> U+9A8C   <an4> U+6848             *)
(*   <li> U+4F8B   <yan2> U+7814   <jiu1> U+7A76  <shi4> U+4E8B            *)
(*   <jian4> U+4EF6 <shi5> U+8BD5  <kan> U+770B   <guan> U+5173            *)
(*   <jian5> U+952E <fa> U+53D1    <xian> U+73B0  <jie1> U+9636            *)
(*   <duan> U+6BB5 <bu5> U+6B65    <yao> U+8981   <su> U+7D20              *)
(*   <mo> U+6A21   <kuai> U+5757   <biao> U+8868  <dan> U+5355             *)
(*   <yuan2> U+5143 <gong> U+5171  <shi3> U+8BC6  <qian> U+524D            *)
(*   <yan3> U+8A00 <ji> U+57FA     <chu> U+7840                            *)
(*   <bu2> U+5E03  <shi6> U+5F0F                                           *)
(*   <nbsp> U+00A0 <thinsp> U+2009 <zwsp> U+200B  <bom> U+FEFF             *)
(*   <surr> a lone surrogate U+D800..U+DFFF                                *)
(***************************************************************************)
EXTENDS Integers, Sequences, FiniteSets, TLC

----------------------------------------------------------------------------
(* Characters and the str methods the code uses                            *)

Digit == {"0", "1", "2", "3", "4", "5", "6", "7", "8", "9"}

UpperSeq ==
    <<"A", "B", "C", "D", "E", "F", "G", "H", "I", "J", "K", "L", "M",
      "N", "O", "P", "Q", "R", "S", "T", "U", "V", "W", "X", "Y", "Z">>

LowerSeq ==
    <<"a", "b", "c", "d", "e", "f", "g", "h", "i", "j", "k", "l", "m",
      "n", "o", "p", "q", "r", "s", "t", "u", "v", "w", "x", "y", "z">>

Upper == {UpperSeq[k] : k \in DOMAIN UpperSeq}

\* str.lower() / re.IGNORECASE on one character
ToLower(c) ==
    IF c \in Upper
    THEN LowerSeq[CHOOSE k \in DOMAIN UpperSeq : UpperSeq[k] = c]
    ELSE c

\* str.lower()
Lower(s) == [k \in DOMAIN s |-> ToLower(s[k])]

\* what str.strip() removes and what the regex class \s matches
Space == {" ", "\t", "\n", "\r", "<nbsp>", "<thinsp>"}

E == << >>

Drop(s, n) == SubSeq(s, n + 1, Len(s))

StartsWith(s, p) == Len(p) <= Len(s) /\ SubSeq(s, 1, Len(p)) = p

RECURSIVE LStrip(_)
LStrip(s) ==
    IF s = E THEN s
    ELSE IF Head(s) \in Space THEN LStrip(Tail(s)) ELSE s

RECURSIVE RStripSet(_, _)
RStripSet(s, cs) ==
    IF s = E THEN s
    ELSE IF s[Len(s)] \in cs THEN RStripSet(SubSeq(s, 1, Len(s) - 1), cs) ELSE s

RStrip(s) == RStripSet(s, Space)

Strip(s) == RStrip(LStrip(s))

\* the first position at or after p (1-based) whose character is not in cs
RECURSIVE SkipWhile(_, _, _)
SkipWhile(s, p, cs) ==
    IF p <= Len(s) /\ s[p] \in cs THEN SkipWhile(s, p + 1, cs) ELSE p

\* x in s, for str x and s
RECURSIVE Contains(_, _)
Contains(s, x) ==
    IF Len(s) < Len(x) THEN FALSE
    ELSE StartsWith(s, x) \/ Contains(Tail(s), x)

RECURSIVE MapChars(_, _)
MapChars(s, f) ==
    IF s = E THEN E
    ELSE LET c == Head(s)
         IN  (IF c \in DOMAIN f THEN f[c] ELSE <<c>>) \o MapChars(Tail(s), f)

----------------------------------------------------------------------------
(* _utils.deep_clean_title                                                 *)

\* the strings matched by  &#(?:x0?[0A9D]|10|13);
Entities ==
    { <<"&", "#", "1", "0", ";">>, <<"&", "#", "1", "3", ";">> }
    \cup { <<"&", "#", "x", d, ";">> : d \in {"0", "A", "9", "D"} }
    \cup { <<"&", "#", "x", "0", d, ";">> : d \in {"0", "A", "9", "D"} }

RECURSIVE SubEntities(_)
SubEntities(s) ==
    IF s = E THEN E
    ELSE IF \E e \in Entities : StartsWith(s, e)
         THEN LET e == CHOOSE e \in Entities : StartsWith(s, e)
              IN  <<" ">> \o SubEntities(Drop(s, Len(e)))
         ELSE <<Head(s)>> \o SubEntities(Tail(s))

\* re.sub(r'\s+', ' ', text)
RECURSIVE CollapseSpaces(_)
CollapseSpaces(s) ==
    IF s = E THEN E
    ELSE IF Head(s) \in Space
         THEN <<" ">> \o CollapseSpaces(Drop(s, SkipWhile(s, 1, Space) - 1))
         ELSE <<Head(s)>> \o CollapseSpaces(Tail(s))

deep_clean_title(text) ==
    IF text = E THEN E
    ELSE LET t1 == SubEntities(text)
             t2 == MapChars(t1, [c \in {"\n", "\r", "\t"} |-> <<" ">>])
             t3 == MapChars(t2, [c \in {"<nbsp>", "<thinsp>", "<zwsp>", "<bom>"} |->
                                   IF c \in {"<nbsp>", "<thinsp>"} THEN <<" ">> ELSE E])
             t4 == MapChars(t3, [c \in {"<surr>"} |-> E])
         IN  Strip(CollapseSpaces(t4))

----------------------------------------------------------------------------
(* batch_03_toc: numbering prefixes                                        *)

PREFIX_TRANSLATIONS ==
    <<
       [key |-> <<"p", "a", "r", "t">>,
        pre |-> <<"<di>">>, suf |-> <<"<bu>", "<fen>">>],
       [key |-> <<"c", "h", "a", "p", "t", "e", "r">>,
        pre |-> <<"<di>", " ">>, suf |-> <<" ", "<zhang>">>],
       [key |-> <<"s", "e", "c", "t", "i", "o", "n">>,
        pre |-> <<"<di>">>, suf |-> <<"<jie>">>],
       [key |-> <<"a", "p", "p", "e", "n", "d", "i", "x">>,
        pre |-> <<"<fu>", "<lu>">>, suf |-> <<>>],
       [key |-> <<"e", "x", "e", "r", "c", "i", "s", "e">>,
        pre |-> <<"<lian>", "<xi>">>, suf |-> <<>>],
       [key |-> <<"l", "e", "s", "s", "o", "n">>,
        pre |-> <<"<ke>", "<cheng>">>, suf |-> <<>>],
       [key |-> <<"u", "n", "i", "t">>,
        pre |-> <<"<di>">>, suf |-> <<"<dan>", "<yuan2>">>],
       [key |-> <<"t", "a", "b", "l", "e">>,
        pre |-> <<"<biao>">>, suf |-> <<>>],
       [key |-> <<"l", "a", "b">>,
        pre |-> <<"<shi2>", "<yan>">>, suf |-> <<>>],
       [key |-> <<"c", "a", "s", "e", " ", "s", "t", "u", "d", "y">>,
        pre |-> <<"<an4>", "<li>", "<yan2>", "<jiu1>">>, suf |-> <<>>],
       [key |-> <<"e", "x", "p", "e", "r", "i", "m", "e", "n", "t">>,
        pre |-> <<"<shi2>", "<yan>">>, suf |-> <<>>],
       [key |-> <<"i", "n", "c", "i", "d", "e", "n", "t">>,
        pre |-> <<"<shi4>", "<jian4>">>, suf |-> <<>>],
       [key |-> <<"t", "r", "y", " ", "i", "t">>,
        pre |-> <<"<shi5>", "<shi5>", "<kan>">>, suf |-> <<>>],
       [key |-> <<"k", "e", "y", " ", "f", "i", "n", "d", "i", "n", "g">>,
        pre |-> <<"<guan>", "<jian5>", "<fa>", "<xian>">>, suf |-> <<>>],
       [key |-> <<"p", "h", "a", "s", "e">>,
        pre |-> <<"<di>">>, suf |-> <<"<jie1>", "<duan>">>],
       [key |-> <<"s", "t", "e", "p">>,
        pre |-> <<"<di>">>, suf |-> <<"<bu5>">>],
       [key |-> <<"e", "l", "e", "m", "e", "n", "t">>,
        pre |-> <<"<yao>", "<su>">>, suf |-> <<>>],
       [key |-> <<"m", "o", "u", "d", "l", "e">>,
        pre |-> <<"<mo>", "<kuai>">>, suf |-> <<>>]
    >>

_NUM_TO_ZH ==
    <<"<n1>", "<n2>", "<n3>", "<n4>", "<n5>", "<n6>", "<n7>", "<n8>", "<n9>", "<n10>">>

\* _NUM_TO_ZH[n], a dict keyed 0..10
NumWord(n) == IF n = 0 THEN "<n0>" ELSE _NUM_TO_ZH[n]

\* the tens word is written for every tens digit
_num_to_zh_spoken(n) ==
    IF n <= 10 THEN <<NumWord(n)>>
    ELSE <<NumWord(n \div 10)>> \o <<"<n10>">>
         \o (IF n % 10 # 0 THEN <<NumWord(n % 10)>> ELSE E)

_num_to_zh(n) ==
    IF n <= 10 THEN <<NumWord(n)>>
    ELSE LET tens == n \div 10
             units == n % 10
         IN  (IF tens = 1 THEN E ELSE <<NumWord(tens)>>)
             \o <<"<n10>">>
             \o (IF units # 0 THEN <<NumWord(units)>> ELSE E)

\* str.isdigit() on ASCII text
IsDigitStr(s) == s # E /\ \A k \in DOMAIN s : s[k] \in Digit

DigitVal(c) == CHOOSE v \in 0..9 : <<"0", "1", "2", "3", "4", "5", "6", "7", "8", "9">>[v + 1] = c

DigitChar(v) == <<"0", "1", "2", "3", "4", "5", "6", "7", "8", "9">>[v + 1]

\* int(s) for a digit string
RECURSIVE IntOf(_)
IntOf(s) ==
    IF s = E THEN 0 ELSE 10 * IntOf(SubSeq(s, 1, Len(s) - 1)) + DigitVal(s[Len(s)])

\* str(n) for n >= 0
RECURSIVE StrOf(_)
StrOf(n) ==
    IF n < 10 THEN <<DigitChar(n)>> ELSE StrOf(n \div 10) \o <<DigitChar(n % 10)>>

\* f'{n}'
Pad02_plain(n) == StrOf(n)

\* f'{n:02d}'
Pad02(n) == IF n < 10 THEN <<"0">> \o StrOf(n) ELSE StrOf(n)

TableEntry(typ) ==
    CHOOSE k \in DOMAIN PREFIX_TRANSLATIONS : PREFIX_TRANSLATIONS[k].key = typ

\* every keyword of the table formatted from its table entry
_fmt_prefix_table(typ, num) ==
    IF typ = E /\ num # E THEN num
    ELSE IF \E k \in DOMAIN PREFIX_TRANSLATIONS : PREFIX_TRANSLATIONS[k].key = Lower(typ)
    THEN PREFIX_TRANSLATIONS[TableEntry(Lower(typ))].pre \o num
         \o PREFIX_TRANSLATIONS[TableEntry(Lower(typ))].suf
    ELSE Strip(typ \o <<" ">> \o num)

_fmt_prefix(typ, num) ==
    IF typ = E /\ num # E THEN num
    ELSE IF Lower(typ) = <<"p", "a", "r", "t">>
    THEN IF IsDigitStr(num) /\ IntOf(num) < 100
         THEN <<"<di>">> \o _num_to_zh(IntOf(num)) \o <<"<bu>", "<fen>">>
         ELSE <<"<di>">> \o num \o <<"<bu>", "<fen>">>
    ELSE IF Lower(typ) = <<"c", "h", "a", "p", "t", "e", "r">>
    THEN IF IsDigitStr(num)
         THEN <<"<di>">> \o Pad02(IntOf(num)) \o <<"<zhang>">>
         ELSE <<"<di>">> \o num \o <<"<zhang>">>
    ELSE IF Lower(typ) = <<"s", "e", "c", "t", "i", "o", "n">>
    THEN <<"<di>">> \o num \o <<"<jie>">>
    ELSE IF \E k \in DOMAIN PREFIX_TRANSLATIONS : PREFIX_TRANSLATIONS[k].key = Lower(typ)
    THEN LET e == PREFIX_TRANSLATIONS[TableEntry(Lower(typ))]
         IN  e.pre \o num \o e.suf
    ELSE Strip(typ \o <<" ">> \o num)

----------------------------------------------------------------------------
(* batch_03_toc._strip_model_prefix: seven anchored re.sub calls, in order *)

Colons == {":", "<colon>"}

ZhNumerals ==
    {"<n1>", "<n2>", "<liang>", "<n3>", "<n4>", "<n5>", "<n6>", "<n7>", "<n8>", "<n9>", "<n10>"}

\* [0-9]+ at p: the position after the run, or 0 when there is no digit at p
DigitsAt(s, p) == IF p <= Len(s) /\ s[p] \in Digit THEN SkipWhile(s, p, Digit) ELSE 0

\* [0-9]+(?:<sep>[0-9]+)? at p
DigitsOptAt(s, p, sep) ==
    LET q == DigitsAt(s, p)
    IN  IF q = 0 THEN 0
        ELSE IF q <= Len(s) /\ s[q] = sep /\ DigitsAt(s, q + 1) # 0
             THEN DigitsAt(s, q + 1)
             ELSE q

\* <numbering at p> \s* <closing> [:<colon>] \s*, closing a (possibly empty)
\* literal; q is the position after the numbering (0: no numbering)
TailAt(s, q, closing, ws) ==
    IF q = 0 THEN 0
    ELSE LET r == IF ws THEN SkipWhile(s, q, Space) ELSE q
             c == r + Len(closing)
         IN  IF c <= Len(s) /\ SubSeq(s, r, c - 1) = closing /\ s[c] \in Colons
             THEN SkipWhile(s, c + 1, Space)
             ELSE 0

\* each Sub_k removes the match of the k-th pattern at the start of the text
SubAt(s, q) == IF q = 0 THEN s ELSE Drop(s, q - 1)

Sub1(s) ==
    IF StartsWith(s, <<"<di>">>)
    THEN SubAt(s, TailAt(s, DigitsAt(s, SkipWhile(s, 2, Space)), <<"<zhang>">>, TRUE))
    ELSE s

Sub2(s) ==
    IF StartsWith(s, <<"<di>">>) /\ Len(s) >= 2 /\ s[2] \in ZhNumerals
    THEN SubAt(s, TailAt(s, SkipWhile(s, 2, ZhNumerals), <<"<bu>", "<fen>">>, FALSE))
    ELSE s

Sub3(s) ==
    IF StartsWith(s, <<"<fu>", "<lu>">>)
    THEN LET p == SkipWhile(s, 3, Space)
             q == IF p <= Len(s) /\ s[p] \in Digit \cup Upper
                  THEN SkipWhile(s, p, Digit \cup Upper) ELSE 0
         IN  SubAt(s, TailAt(s, q, E, FALSE))
    ELSE s

Sub4(s) ==
    IF StartsWith(s, <<"<di>">>)
    THEN SubAt(s, TailAt(s, DigitsOptAt(s, SkipWhile(s, 2, Space), "."), <<"<jie>">>, TRUE))
    ELSE s

Sub5(s) ==
    IF StartsWith(s, <<"<di>">>)
    THEN SubAt(s, TailAt(s, DigitsOptAt(s, SkipWhile(s, 2, Space), "-"), <<"<ke>">>, TRUE))
    ELSE s

Sub6(s) ==
    IF StartsWith(s, <<"<lian>", "<xi>">>)
    THEN SubAt(s, TailAt(s, DigitsOptAt(s, SkipWhile(s, 3, Space), "-"), E, FALSE))
    ELSE s

Sub7(s) ==
    LET kw == <<"<ke>", "<hou>", "<ying>", "<yong>">>
    IN  IF StartsWith(s, kw) /\ Len(s) > Len(kw) /\ s[Len(kw) + 1] \in Colons
        THEN Drop(s, SkipWhile(s, Len(kw) + 2, Space) - 1)
        ELSE s

_strip_model_prefix(text) == Strip(Sub7(Sub6(Sub5(Sub4(Sub3(Sub2(Sub1(text))))))))

----------------------------------------------------------------------------
(* batch_03_toc.parse_toc_triple                                           *)

\* sorted(keys, key=len, reverse=True): stable, so equal lengths keep dict order
RECURSIVE InsertByLen(_, _)
InsertByLen(sorted, k) ==
    IF sorted = E THEN <<k>>
    ELSE IF Len(k) > Len(Head(sorted)) THEN <<k>> \o sorted
         ELSE <<Head(sorted)>> \o InsertByLen(Tail(sorted), k)

RECURSIVE SortKeys(_, _)
SortKeys(table, n) ==
    IF n = 0 THEN E ELSE InsertByLen(SortKeys(table, n - 1), table[n].key)

prefix_types == SortKeys(PREFIX_TRANSLATIONS, Len(PREFIX_TRANSLATIONS))

\* re.match(rf'^{kw}\s+(?=\S)', line): match.end(), or 0
KeywordEnd_exact(line, kw) ==
    IF Len(line) > Len(kw)
       /\ \A k \in DOMAIN kw : line[k] = kw[k]
       /\ line[Len(kw) + 1] \in Space
    THEN LET q == SkipWhile(line, Len(kw) + 1, Space)
         IN  IF q <= Len(line) THEN q - 1 ELSE 0
    ELSE 0

\* re.match(rf'^{kw}\s+(?=\S)', line, re.IGNORECASE): match.end(), or 0
KeywordEnd(line, kw) ==
    IF Len(line) > Len(kw)
       /\ \A k \in DOMAIN kw : ToLower(line[k]) = kw[k]
       /\ line[Len(kw) + 1] \in Space
    THEN LET q == SkipWhile(line, Len(kw) + 1, Space)
         IN  IF q <= Len(line) THEN q - 1 ELSE 0
    ELSE 0

\* (?:\.\d+)+ / (?:\.\d+)* at p: the position after the last ".digits" group
RECURSIVE DotGroups(_, _)
DotGroups(s, p) ==
    IF p <= Len(s) /\ s[p] = "." /\ DigitsAt(s, p + 1) # 0
    THEN DotGroups(s, DigitsAt(s, p + 1))
    ELSE p

UppersAt(s, p) == IF p <= Len(s) /\ s[p] \in Upper THEN SkipWhile(s, p, Upper) ELSE 0

\* prefix_num_patterns: for pattern k, the position after its longest match at
\* the start of s, or 0
NumPatternEnd(s, k) ==
    LET d == DigitsAt(s, 1)
        u == UppersAt(s, 1)
    IN  CASE k = 1 -> d
          [] k = 2 -> IF d # 0 /\ DotGroups(s, d) > d THEN DotGroups(s, d) ELSE 0
          [] k = 3 -> IF d # 0 /\ d <= Len(s) /\ s[d] = "-" THEN DigitsAt(s, d + 1) ELSE 0
          [] k = 4 -> IF u # 0 THEN DigitsAt(s, u) ELSE 0
          [] k = 5 -> IF u # 0 /\ DotGroups(s, u) > u THEN DotGroups(s, u) ELSE 0
          [] k = 6 -> IF u # 0 /\ u <= Len(s) /\ s[u] = "-" /\ DigitsAt(s, u + 1) # 0
                      THEN DotGroups(s, DigitsAt(s, u + 1)) ELSE 0
          [] k = 7 -> IF s # E /\ s[1] \in Upper THEN 2 ELSE 0

NumPatternCount == 7

\* (?:\s+|:|<colon>|$) at q: the position after it, or 0
TerminatorEnd(s, q) ==
    IF q > Len(s) THEN q
    ELSE IF s[q] \in Space THEN SkipWhile(s, q, Space)
    ELSE IF s[q] \in Colons THEN q + 1
    ELSE 0

PatternMatches(s, k) == NumPatternEnd(s, k) # 0 /\ TerminatorEnd(s, NumPatternEnd(s, k)) # 0

\* the least element of a non-empty set of numbers, 0 for the empty set
Least(S) == IF S = {} THEN 0 ELSE CHOOSE k \in S : \A j \in S : k <= j

\* the first alternative of the combined pattern that matches, 0 for none
FirstPattern(s) == Least({k \in 1..NumPatternCount : PatternMatches(s, k)})

\* group(1).rstrip('.') and match.end() for the alternative ending before q
NumberMatch(s, q) ==
    [num |-> RStripSet(SubSeq(s, 1, q - 1), {"."}), end |-> TerminatorEnd(s, q) - 1]

\* the first alternative that matches on its own decides, with no return to
\* a later alternative when the terminator does not follow it
MatchNumber_greedy(s) ==
    IF Least({k \in 1..NumPatternCount : NumPatternEnd(s, k) # 0}) # 0
       /\ PatternMatches(s, Least({k \in 1..NumPatternCount : NumPatternEnd(s, k) # 0}))
    THEN NumberMatch(s, NumPatternEnd(s, FirstPattern(s)))
    ELSE [num |-> E, end |-> 0]

\* re.match(full_pattern, s): [num, end], with end = match.end(); end = 0: no match
MatchNumber(s) ==
    IF FirstPattern(s) # 0
    THEN NumberMatch(s, NumPatternEnd(s, FirstPattern(s)))
    ELSE [num |-> E, end |-> 0]

\* lines 314-318 / 337-341: the bare title after a matched number
TitleAfterColon(t) == IF t # E /\ t[1] \in Colons THEN LStrip(Tail(t)) ELSE t

TitleAfter(s, end) == TitleAfterColon(LStrip(Drop(s, end)))

\* lines 291-298: the first keyword of prefix_types that matches, 0 for none
FirstKeyword(line) ==
    Least({k \in DOMAIN prefix_types : KeywordEnd(line, prefix_types[k]) # 0})

\* with a number the keyword is dropped
TripleFrom_numbered(line, typ, rest, m) ==
    IF m.end # 0
    THEN [typ |-> E, num |-> m.num, title |-> Strip(TitleAfter(rest, m.end))]
    ELSE [typ |-> E, num |-> E, title |-> Strip(line)]

\* without a number the keyword is kept
TripleFrom_typed(line, typ, rest, m) ==
    IF m.end # 0
    THEN [typ |-> typ, num |-> m.num, title |-> Strip(TitleAfter(rest, m.end))]
    ELSE [typ |-> typ, num |-> E, title |-> Strip(line)]

\* without a number the text after the keyword is the title
TripleFrom_rest(line, typ, rest, m) ==
    IF m.end # 0
    THEN [typ |-> typ, num |-> m.num, title |-> Strip(TitleAfter(rest, m.end))]
    ELSE [typ |-> E, num |-> E, title |-> Strip(rest)]

\* lines 310-323 / 333-345, m the number match on rest
TripleFrom(line, typ, rest, m) ==
    IF m.end # 0
    THEN [typ |-> typ, num |-> m.num, title |-> Strip(TitleAfter(rest, m.end))]
    ELSE [typ |-> E, num |-> E, title |-> Strip(line)]

\* lines 286-345, k the matched keyword (0: none)
ParseKeyword(line, k) ==
    IF k # 0
    THEN TripleFrom(line, prefix_types[k],
                    LStrip(Drop(line, KeywordEnd(line, prefix_types[k]))),
                    MatchNumber(LStrip(Drop(line, KeywordEnd(line, prefix_types[k])))))
    ELSE TripleFrom(line, E, line, MatchNumber(line))

ParseStripped(line) ==
    IF line = E THEN [typ |-> E, num |-> E, title |-> E]
    ELSE ParseKeyword(line, FirstKeyword(line))

parse_toc_triple(raw) == ParseStripped(Strip(raw))

----------------------------------------------------------------------------
(* _utils.has_explanatory_note                                             *)

\* the literal alternatives of has_explanatory_note_re
NotePatterns ==
    { <<"<yi4>">>,
      <<"<yuan>", "<wen>">>,
      <<"<jian>", "<yi>">>,
      <<"<gen>", "<ju>">>,
      <<"<jiu>", "<zheng>">>,
      <<"<zhu>", "<colon>">>,
      <<"<bei>", "<zhu>", "<colon>">>,
      <<"<shang>", "<xia>", "<wen>">>,
      <<"<ruo>", "<wei>", "<ming>", "<que>", "<zhi>", "<shi>">>,
      <<"<ru>", "<xu>">>,
      <<"<bu4>", "<bi>", "<kao>", "<lv>">>,
      <<"<jian3>", "<hua>", "<wei2>">> }

\* a.*b found in s ("." does not match a line break)
RECURSIVE ContainsThen(_, _, _)
ContainsThen(s, a, b) ==
    IF Len(s) < Len(a) + Len(b) THEN FALSE
    ELSE (StartsWith(s, a) /\
            LET rest == Drop(s, Len(a))
                stop == SkipWhile(rest, 1, {c \in {rest[k] : k \in DOMAIN rest} : c # "\n"})
            IN  Contains(SubSeq(rest, 1, stop - 1), b))
         \/ ContainsThen(Tail(s), a, b)

has_explanatory_note_re(text) ==
    IF text = E THEN FALSE
    ELSE \/ \E p \in NotePatterns : Contains(text, p)
         \/ ContainsThen(text, <<"<wu>", "<xu>">>, <<"<shuo>", "<ming>">>)
         \/ ContainsThen(text, <<"<an>", "<zhao>">>, <<"<zhi>", "<dao>">>)

has_explanatory_note_regex_only(src, trans) ==
    has_explanatory_note_re(MapChars(trans, [c \in {"\n"} |-> <<" ">>]))

\* the regex branch returns the function object has_explained_content_llm,
\* which every caller tests for truth: it counts as True
has_explanatory_note(src, trans) ==
    IF ~Contains(src, <<"\n">>) /\ Contains(trans, <<"\n">>) THEN TRUE
    ELSE has_explanatory_note_re(MapChars(trans, [c \in {"\n"} |-> <<" ">>]))

----------------------------------------------------------------------------
(* Text files: open(..., "w") / write / iteration over the lines           *)

\* "\n".join(results)
RECURSIVE JoinLines(_)
JoinLines(rs) ==
    IF rs = E THEN E
    ELSE IF Len(rs) = 1 THEN rs[1]
    ELSE rs[1] \o <<"\n">> \o JoinLines(Tail(rs))

\* what f.write("\n".join(results) + "\n") puts in the file
WriteText(rs) == JoinLines(rs) \o <<"\n">>

\* iterating an open text file: each line ends after its "\n"
RECURSIVE SplitLines(_)
SplitLines(text) ==
    IF text = E THEN E
    ELSE LET p == SkipWhile(text, 1, {c \in {text[k] : k \in DOMAIN text} : c # "\n"})
         IN  <<SubSeq(text, 1, IF p <= Len(text) THEN p ELSE Len(text))>>
             \o SplitLines(Drop(text, p))

\* [l.rstrip() for l in f]
RStripAll(ls) == [k \in DOMAIN ls |-> RStrip(ls[k])]

ReadLines(text) == RStripAll(SplitLines(text))

\* open(path, "w") leaves the file empty until the data is flushed
OpenForWrite_append(old) == old

OpenForWrite(old) == E

----------------------------------------------------------------------------
(* batch_03_toc.export_toc_to_xml and pdf_import_toc_xml: the snapshot tree *)

\* an outline entry of doc.get_toc(): [level, title, page]
OutlineEntry(l, ti, p) == [level |-> l, title |-> ti, page |-> p]

FrontCover == <<"f", "r", "o", "n", "t", " ", "c", "o", "v", "e", "r">>

\* lines 497-498: entries whose lower-cased title holds "front cover" go
Kept(toc) ==
    SelectSeq(toc, LAMBDA e :
        ~Contains([k \in DOMAIN Strip(e.title) |-> ToLower(Strip(e.title)[k])], FrontCover))

\* one pop at most: if len(stack) > level: stack.pop()
PopTo_once(stack, level) ==
    IF Len(stack) > level THEN SubSeq(stack, 1, Len(stack) - 1) ELSE stack

\* lines 513-514: while len(stack) > level: stack.pop()
PopTo(stack, level) == IF Len(stack) > level THEN SubSeq(stack, 1, level) ELSE stack

\* lines 507-517: the ITEM elements in creation order, each with the index of
\* its parent element (0 is the root); stack holds the open path
RECURSIVE BuildItems(_, _, _)
BuildItems(todo, stack, items) ==
    IF todo = E THEN items
    ELSE BuildItems(
            Tail(todo),
            Append(PopTo(stack, Head(todo).level), Len(items) + 1),
            Append(items,
                   [NAME |-> deep_clean_title(Head(todo).title),
                    PAGE |-> StrOf(Head(todo).page),
                    LEVEL |-> StrOf(Head(todo).level),
                    parent |-> PopTo(stack, Head(todo).level)[Len(PopTo(stack, Head(todo).level))]]))

\* lines 508-517: the stack after the first k entries of todo are attached,
\* the root being 0 and an ITEM its position in creation order
RECURSIVE StackAfter(_, _)
StackAfter(todo, k) ==
    IF k = 0 THEN <<0>>
    ELSE Append(PopTo(StackAfter(todo, k - 1), todo[k].level), k)

\* the tree export_toc_to_xml writes for the outline toc
ExportTree(toc) == BuildItems(Kept(toc), <<0>>, E)

\* pdf_import_toc_xml line 570: int(item.get("LEVEL", lvl))
LevelOf_depth(item, lvl) == lvl

LevelOf(item, lvl) == IntOf(item.LEVEL)

\* pdf_import_toc_xml lines 566-572: extract(e, lvl) over the ITEM children
\* of element p, from element k on
RECURSIVE ExtractFrom(_, _, _, _)
ExtractFrom(items, p, k, lvl) ==
    IF k > Len(items) THEN E
    ELSE IF items[k].parent = p
    THEN << [level |-> LevelOf(items[k], lvl),
             name |-> items[k].NAME,
             page |-> IntOf(items[k].PAGE)] >>
         \o ExtractFrom(items, k, k + 1, LevelOf(items[k], lvl) + 1)
         \o ExtractFrom(items, p, k + 1, lvl)
    ELSE ExtractFrom(items, p, k + 1, lvl)

\* the outline pdf_import_toc_xml reads from a tree
ImportTree(items) == ExtractFrom(items, 0, 1, 1)

----------------------------------------------------------------------------
(* Bounds and the inputs the runs are checked on                           *)

MaxLines == 2

MaxStored == 3

MaxRestarts == 1

MAX_RETRIES == 3

RETRY_DELAY == 3

T_Preface == <<"P", "r", "e", "f", "a", "c", "e">>

T_Chapter ==
    <<"C", "h", "a", "p", "t", "e", "r", " ", "7", ":", " ",
      "C", "o", "n", "s", "e", "n", "s", "u", "s">>

T_Exercise == <<"E", "x", "e", "r", "c", "i", "s", "e", " ", "1", "-", "1", "8">>

\* lines of a content file: cleaned, non-empty titles
Titles == {T_Preface, T_Chapter, T_Exercise}

R_Plain == <<"<gong>", "<shi3>">>

R_Note == <<"<gong>", "<shi3>", "\n", "<zhu>", "<colon>", "x">>

R_Echo == <<"<di>", "7", "<zhang>", "<colon>", "<gong>", "<shi3>">>

R_OnlyStop == <<"<stop>">>

\* texts the primary backend may answer with
PrimaryTexts == {R_Plain, R_Note, R_Echo, R_OnlyStop}

R2_Plain == <<"<ji>", "<chu>">>

R2_Note == <<"<ji>", "<chu>", "\n", "<zhu>", "<colon>", "x">>

\* texts the secondary backend may answer with
SecondaryTexts == {R2_Plain, R2_Note}

S_Done == <<"<qian>", "<yan3>">>

\* lines an earlier run may have left in the translation file
StoredTexts == {E, S_Done}

SeqsUpTo(S, n) == UNION {[1..k -> S] : k \in 0..n}

Absent == [exists |-> FALSE, text |-> E]

\* the translation file before the first run: absent, cut to nothing, or as
\* written by an earlier run
InitialFiles ==
    {Absent, [exists |-> TRUE, text |-> E]}
    \cup {[exists |-> TRUE, text |-> WriteText(r)] : r \in SeqsUpTo(StoredTexts, MaxStored) \ {E}}

----------------------------------------------------------------------------
(* batch_03_toc.is_file_recent and build_files_config                      *)

HOURS_RECENT == 2400

\* files.values(), in the order of the dict
files ==
    <<"toc_xml_file", "content_file", "prompt_file", "translation_file",
      "trans_xml_file">>

FileNames == {files[k] : k \in 1..Len(files)}

\* the scan covers the translated tree as well
critical_files_all == files

critical_files == <<"toc_xml_file", "content_file", "prompt_file", "translation_file">>

\* ages, in hours, on both sides of the window and on its edge
Ages == {0, HOURS_RECENT, HOURS_RECENT + 1}

Missing == [exists |-> FALSE, age |-> 0]

Fresh == [exists |-> TRUE, age |-> 0]

ArtifactStates == {Missing} \cup {[exists |-> TRUE, age |-> a] : a \in Ages}

is_file_recent(f) == f.exists /\ f.age <= HOURS_RECENT

\* line 472: f.exists() and not is_file_recent(f)
IsExpired(f) == f.exists /\ ~is_file_recent(f)

\* line 479: the files the clean-up removes
ShouldUnlink_expired(f) == IsExpired(f)

ShouldUnlink(f) == f.exists

----------------------------------------------------------------------------
(* batch_03_toc.translate_line_by_line and ollama_chat                     *)

VARIABLES
    lines,         \* the argument lines
    file,          \* trans_file: [exists, text]
    pc,            \* where the run stands
    i,             \* the loop index (0-based, as in the code)
    results,       \* the list results
    req,           \* the text handed to the backends for entry i
    attempt,       \* attempts ollama_chat has made in the current call
    delays,        \* the time.sleep durations of the current call
    served,        \* <<text>> of the attempt that succeeded, else << >>
    primaryRet,    \* <<value>> once ollama_chat has returned, else << >>
    flagged,       \* has_explanatory_note's verdict on the primary result
    checks,        \* detector runs for entry i
    secCalls,      \* translate_with_deepseek_api calls for entry i
    secRet,        \* <<text>> the secondary backend returned, << >> for None
    existed,       \* the lines read from trans_file when the run started
    called,        \* indices a backend was called for in this run
    order,         \* indices in the order the run took them up
    finalizedNow,  \* indices finalized in this run
    wrote,         \* the run has rewritten trans_file
    committed,     \* on re-invocation: the entries the ended run had completed
    restarts       \* re-invocations so far

\* translate_toc up to its first steps: build_files_config and the export
VARIABLES
    artifacts,     \* the five intermediate files: name -> [exists, age in hours]
    atEntry,       \* artifacts as build_files_config found them
    spc,           \* where translate_toc stands
    fidx,          \* position of the loop in progress
    any_expired,   \* the flag any_expired
    outline,       \* doc.get_toc() of the PDF
    data,          \* what each intermediate file holds
    written,       \* the files this invocation has written
    guideResp,     \* <<text>> ollama_chat returned for the guide, else << >>
    guide,         \* translation_guide
    genCalls,      \* guide requests made
    english,       \* all_english_lines
    chinese,       \* chinese_lines
    retval,        \* the path translate_toc returns
    cause          \* the step that ended the invocation

\* a single call of one of the text functions
VARIABLES
    call,          \* the call: [fn, a, b], the function and its arguments
    out            \* <<value>> once the call has returned, else << >>

runVars ==
    <<lines, file, pc, i, results, req, attempt, delays, served, primaryRet,
      flagged, checks, secCalls, secRet, existed, called, order, finalizedNow,
      wrote, committed, restarts>>

flowVars ==
    <<outline, data, written, guideResp, guide, genCalls, english, chinese,
      retval, cause>>

sweepVars == <<artifacts, atEntry, spc, fidx, any_expired, flowVars>>

callVars == <<call, out>>

VARIABLES
    prefixes,      \* the prefix argument of each of two translate_toc calls
    disk,          \* PROCESSING_DIR and TOC_DIR: path -> [exists, age, origin]
    diskAtEntry,   \* disk before either call started
    ppc,           \* the number of steps each call has completed
    touched,       \* the paths each call has tested, read, written or removed
    result,        \* <<path>> once the call has returned, else << >>
    overlapped     \* a call has taken a step while the other was under way

pairVars == <<prefixes, disk, diskAtEntry, ppc, touched, result, overlapped>>

vars == <<runVars, sweepVars, callVars, pairVars>>

total == Len(lines)

Blank(n) == [k \in 1..n |-> E]

\* lines 386-388: a stored non-empty line fills its own slot
RestoreExisting_adopt(n, ex) == IF ex # E THEN ex ELSE Blank(n)

RestoreExisting(n, ex) ==
    [k \in 1..n |-> IF k <= Len(ex) /\ ex[k] # E THEN ex[k] ELSE E]

\* lines 399-400: if results[i]: continue
ShouldSkip_never(rs, idx) == FALSE

ShouldSkip(rs, idx) == rs[idx + 1] # E

\* for i in range(total)
NextIndex_back(idx) == IF idx > 0 THEN idx - 1 ELSE idx + 1

NextIndex(idx) == idx + 1

\* a or b, for str
OrElse_first(a, b) == a

OrElse(a, b) == IF a # E THEN a ELSE b

\* line 430: .rstrip('<stop>').strip()
Trim(s) == Strip(RStripSet(s, {"<stop>"}))

\* the text handed to the backends (lines 404-423), t the parsed triple
SubmittedOf_whole(t, eng) == eng

SubmittedOf(t, eng) == IF t.num = E THEN eng ELSE t.title

SubmittedText(eng) == SubmittedOf(parse_toc_triple(eng), eng)

\* every entry takes a translation call
TakesCallOf_always(t) == TRUE

\* whether entry eng takes a translation call (lines 404, 415)
TakesCallOf(t) == t.num = E \/ t.title # E

TakesCall(eng) == TakesCallOf(parse_toc_triple(eng))

\* lines 413, 424-430: the finalized entry for translation trans
FinalOf(t, eng, trans) ==
    IF t.num = E
    THEN Trim(deep_clean_title(OrElse(Strip(trans), eng)))
    ELSE Trim(_fmt_prefix(t.typ, t.num) \o <<" ">>
              \o _strip_model_prefix(deep_clean_title(OrElse(Strip(trans), t.title))))

FinalText(eng, trans) == FinalOf(parse_toc_triple(eng), eng, trans)

\* lines 428-430: an entry that is numbering only
PrefixOf(t) == Trim(_fmt_prefix(t.typ, t.num))

PrefixOnly(eng) == PrefixOf(parse_toc_triple(eng))

\* lines 410, 421: whether the primary result goes to the secondary backend
NeedsEscalation_never(src, trans) == FALSE

NeedsEscalation(src, trans) == has_explanatory_note(src, trans)

\* ollama_chat line 162: sleep after failed attempt number idx (0-based)
SleepAfter_always(idx) == idx < MAX_RETRIES

SleepAfter(idx) == idx < MAX_RETRIES - 1

Eng == Strip(lines[i + 1])

\* the locals of translate_line_by_line before its first statement
RunLocals ==
    /\ i = 0
    /\ results = E
    /\ req = E
    /\ attempt = 0
    /\ delays = E
    /\ served = E
    /\ primaryRet = E
    /\ flagged = FALSE
    /\ checks = 0
    /\ secCalls = 0
    /\ secRet = E
    /\ existed = E
    /\ called = {}
    /\ order = E
    /\ finalizedNow = {}
    /\ wrote = FALSE
    /\ committed = Blank(total)
    /\ restarts = 0

\* translate_line_by_line is called with cleaned titles and a translation file
RunInit ==
    /\ lines \in SeqsUpTo(Titles, MaxLines)
    /\ file \in InitialFiles
    /\ pc = "start"
    /\ RunLocals

\* translate_line_by_line is not running
RunIdle ==
    /\ lines = E
    /\ file = Absent
    /\ pc = "idle"
    /\ RunLocals

\* translate_toc lines 616, 624, 655, 664
NOT_EXIST == "toc_not_exist.xml"

\* translate_toc lines 631-634: the cleaned, non-empty NAMEs in document order
TitlesOf(items) ==
    SelectSeq([k \in DOMAIN items |-> deep_clean_title(items[k].NAME)],
              LAMBDA ti : Strip(ti) # E)

\* an outline with the same title twice and a blank title between
Repeated ==
    <<OutlineEntry(1, T_Preface, 2),
      OutlineEntry(2, <<" ">>, 3),
      OutlineEntry(1, T_Preface, 9)>>

\* outlines of the PDF: none, the cover alone, the cover and two entries,
\* and Repeated
Outlines ==
    { E,
      <<OutlineEntry(1, <<"F", "r", "o", "n", "t", " ", "C", "o", "v", "e", "r">>, 1)>>,
      <<OutlineEntry(1, <<"F", "r", "o", "n", "t", " ", "C", "o", "v", "e", "r">>, 1),
        OutlineEntry(1, T_Preface, 2),
        OutlineEntry(2, T_Chapter, 12)>>,
      Repeated }

\* what an earlier invocation on the same PDF, stopped after its first
\* entry, left in file f
Stored(f, toc) ==
    CASE f = "toc_xml_file" -> ExportTree(toc)
      [] f = "content_file" -> TitlesOf(ExportTree(toc))
      [] f = "prompt_file" -> <<"g", "\n">>
      [] f = "translation_file" ->
            [k \in DOMAIN TitlesOf(ExportTree(toc)) |-> IF k = 1 THEN S_Done ELSE E]
      [] f = "trans_xml_file" -> ExportTree(toc)

\* generate_translation_guide line 356: guide_file.is_file()
GuideCached_never(f) == FALSE

GuideCached(f) == f.exists

\* generate_translation_guide lines 371, 373: guide.strip()
GuideValue_placeholder(resp) == IF Strip(resp) = E THEN <<"?">> ELSE Strip(resp)

GuideValue(resp) == Strip(resp)

\* [l.strip() for l in f if l.strip()]
StrippedLines(ls) ==
    SelectSeq([k \in DOMAIN ls |-> Strip(ls[k])], LAMBDA l : l # E)

\* what translate_line_by_line may finalize the entry eng as: a translation,
\* the empty text (a response that is only a full stop), or the source
EntryOutcomes(eng) == {FinalText(eng, r) : r \in {R_Plain, R_OnlyStop, E}}

\* the lists translate_line_by_line may return for lines, given the lines
\* the translation file holds
Translations(ls, stored) ==
    {r \in [DOMAIN ls -> UNION {EntryOutcomes(ls[k]) : k \in DOMAIN ls}
                          \cup {stored[k] : k \in DOMAIN stored}] :
        \A k \in DOMAIN ls :
            IF k <= Len(stored) /\ stored[k] # E
            THEN r[k] = stored[k]
            ELSE r[k] \in EntryOutcomes(ls[k])}

\* replace_bookmark_names_by_order line 535
Aligned_always(orig, trans) == TRUE

Aligned(orig, trans) == Len(orig) = Len(trans)

\* lines 539, 545-547: trans_map = dict(zip(orig, trans)), the pairs up to
\* the shorter list; a NAME that is a key is replaced by its value (for a
\* repeated key the last pair counts)
Zipped(orig, trans) == DOMAIN orig \cap DOMAIN trans

\* line 544: deep_clean_title(e.get("NAME", "")).strip()
NameKey(item) == Strip(deep_clean_title(item.NAME))

\* every node renamed by its position in the tree
ReplaceNames_every(items, orig, trans) ==
    [k \in DOMAIN items |->
        IF k \in DOMAIN trans THEN [items[k] EXCEPT !.NAME = trans[k]] ELSE items[k]]

\* the nodes with a title renamed by their position among such nodes
ReplaceNames_by_order(items, orig, trans) ==
    [k \in DOMAIN items |->
        IF NameKey(items[k]) # E
           /\ Cardinality({j \in 1..k : NameKey(items[j]) # E}) \in DOMAIN trans
        THEN [items[k] EXCEPT !.NAME =
                 trans[Cardinality({j \in 1..k : NameKey(items[j]) # E})]]
        ELSE items[k]]

\* the new title is looked up again
ReplaceNames_again(items, orig, trans) ==
    LET look(name) ==
            IF \E j \in Zipped(orig, trans) : orig[j] = Strip(deep_clean_title(name))
            THEN trans[CHOOSE j \in Zipped(orig, trans) :
                          /\ orig[j] = Strip(deep_clean_title(name))
                          /\ \A h \in Zipped(orig, trans) :
                                orig[h] = Strip(deep_clean_title(name)) => h <= j]
            ELSE name
    IN  [k \in DOMAIN items |-> [items[k] EXCEPT !.NAME = look(look(items[k].NAME))]]

ReplaceNames(items, orig, trans) ==
    [k \in DOMAIN items |->
        IF \E j \in Zipped(orig, trans) :
              orig[j] = Strip(deep_clean_title(items[k].NAME))
        THEN [items[k] EXCEPT !.NAME =
                 trans[CHOOSE j \in Zipped(orig, trans) :
                          /\ orig[j] = Strip(deep_clean_title(items[k].NAME))
                          /\ \A h \in Zipped(orig, trans) :
                                orig[h] = Strip(deep_clean_title(items[k].NAME)) => h <= j]]
        ELSE items[k]]

\* the locals of translate_toc before its first statement
FlowLocals ==
    /\ written = {}
    /\ guideResp = E
    /\ guide = E
    /\ genCalls = 0
    /\ english = E
    /\ chinese = E
    /\ retval = "none"
    /\ cause = "none"

\* build_files_config is not running
SweepIdle ==
    /\ artifacts = [f \in FileNames |-> Missing]
    /\ atEntry = [f \in FileNames |-> Missing]
    /\ spc = "idle"
    /\ fidx = 0
    /\ any_expired = FALSE
    /\ outline = E
    /\ data = [f \in FileNames |-> E]
    /\ FlowLocals

\* no text function is being called on its own
CallIdle ==
    /\ call = [fn |-> "none", a |-> E, b |-> E]
    /\ out = E

PairIdle ==
    /\ prefixes = E
    /\ disk = E
    /\ diskAtEntry = E
    /\ ppc = E
    /\ touched = E
    /\ result = E
    /\ overlapped = FALSE

Init == RunInit /\ SweepIdle /\ CallIdle /\ PairIdle

\* lines 379-389
Start ==
    /\ pc = "start"
    /\ LET ex == IF file.exists THEN ReadLines(file.text) ELSE E
       IN  /\ existed' = ex
           /\ results' = IF file.exists THEN RestoreExisting(total, ex) ELSE Blank(total)
    /\ i' = 0
    /\ committed' = Blank(total)
    /\ pc' = "loop"
    /\ UNCHANGED <<lines, file, req, attempt, delays, served, primaryRet, flagged,
                   checks, secCalls, secRet, called, order, finalizedNow, wrote,
                   restarts>>
    /\ UNCHANGED <<sweepVars, callVars, pairVars>>

\* lines 398-400: the entry is already filled
LoopSkip ==
    /\ pc = "loop"
    /\ i >= 0
    /\ i < total
    /\ ShouldSkip(results, i)
    /\ i' = NextIndex(i)
    /\ UNCHANGED <<lines, file, pc, results, req, attempt, delays, served, primaryRet,
                   flagged, checks, secCalls, secRet, existed, called, order,
                   finalizedNow, wrote, committed, restarts>>
    /\ UNCHANGED <<sweepVars, callVars, pairVars>>

\* lines 401-409 / 415-420: parse the entry and call ollama_chat
LoopTranslate ==
    /\ pc = "loop"
    /\ i >= 0
    /\ i < total
    /\ ~ShouldSkip(results, i)
    /\ TakesCall(Eng)
    /\ req' = SubmittedText(Eng)
    /\ attempt' = 0
    /\ delays' = E
    /\ served' = E
    /\ primaryRet' = E
    /\ flagged' = FALSE
    /\ checks' = 0
    /\ secCalls' = 0
    /\ secRet' = E
    /\ called' = called \cup {i}
    /\ order' = Append(order, i)
    /\ pc' = "primary"
    /\ UNCHANGED <<lines, file, i, results, existed, finalizedNow, wrote, committed, restarts>>
    /\ UNCHANGED <<sweepVars, callVars, pairVars>>

\* lines 427-430: numbering without a title, no call
LoopPrefixOnly ==
    /\ pc = "loop"
    /\ i >= 0
    /\ i < total
    /\ ~ShouldSkip(results, i)
    /\ ~TakesCall(Eng)
    /\ results' = [results EXCEPT ![i + 1] = PrefixOnly(Eng)]
    /\ req' = E
    /\ attempt' = 0
    /\ delays' = E
    /\ served' = E
    /\ primaryRet' = E
    /\ flagged' = FALSE
    /\ checks' = 0
    /\ secCalls' = 0
    /\ secRet' = E
    /\ order' = Append(order, i)
    /\ finalizedNow' = finalizedNow \cup {i}
    /\ pc' = "write"
    /\ UNCHANGED <<lines, file, i, existed, called, wrote, committed, restarts>>
    /\ UNCHANGED <<sweepVars, callVars, pairVars>>

\* lines 410-430, after ollama_chat returned ret
AfterPrimary(ret) ==
    LET f == NeedsEscalation(req, ret)
    IN  /\ primaryRet' = <<ret>>
        /\ flagged' = f
        /\ checks' = checks + 1
        /\ IF f
           THEN /\ pc' = "secondary"
                /\ UNCHANGED <<results, finalizedNow>>
           ELSE /\ results' = [results EXCEPT ![i + 1] = FinalText(Eng, ret)]
                /\ finalizedNow' = finalizedNow \cup {i}
                /\ pc' = "write"

\* ollama_chat lines 156-159: an attempt succeeds and its content is returned
PrimaryOk ==
    /\ pc = "primary"
    /\ \E text \in PrimaryTexts :
          /\ attempt' = attempt + 1
          /\ served' = <<text>>
          /\ AfterPrimary(text)
    /\ UNCHANGED <<lines, file, i, req, delays, secCalls, secRet, existed, called,
                   order, wrote, committed, restarts>>
    /\ UNCHANGED <<sweepVars, callVars, pairVars>>

\* ollama_chat lines 160-163: a failed attempt that another attempt follows
PrimaryRetry ==
    /\ pc = "primary"
    /\ attempt + 1 < MAX_RETRIES
    /\ attempt' = attempt + 1
    /\ delays' = IF SleepAfter(attempt) THEN Append(delays, RETRY_DELAY) ELSE delays
    /\ UNCHANGED <<lines, file, pc, i, results, req, served, primaryRet, flagged, checks,
                   secCalls, secRet, existed, called, order, finalizedNow, wrote,
                   committed, restarts>>
    /\ UNCHANGED <<sweepVars, callVars, pairVars>>

\* ollama_chat lines 160-164: the last attempt fails and "" is returned
PrimaryExhausted ==
    /\ pc = "primary"
    /\ attempt + 1 >= MAX_RETRIES
    /\ attempt' = attempt + 1
    /\ delays' = IF SleepAfter(attempt) THEN Append(delays, RETRY_DELAY) ELSE delays
    /\ AfterPrimary(E)
    /\ UNCHANGED <<lines, file, i, req, served, secCalls, secRet, existed, called,
                   order, wrote, committed, restarts>>
    /\ UNCHANGED <<sweepVars, callVars, pairVars>>

\* lines 412-413 / 423-430 with translate_with_deepseek_api returning a text
SecondaryOk ==
    /\ pc = "secondary"
    /\ \E text \in SecondaryTexts :
          /\ secRet' = <<text>>
          /\ results' = [results EXCEPT ![i + 1] = FinalText(Eng, text)]
    /\ secCalls' = secCalls + 1
    /\ finalizedNow' = finalizedNow \cup {i}
    /\ pc' = "write"
    /\ UNCHANGED <<lines, file, i, req, attempt, delays, served, primaryRet, flagged,
                   checks, existed, called, order, wrote, committed, restarts>>
    /\ UNCHANGED <<sweepVars, callVars, pairVars>>

\* translate_with_deepseek_api lines 732-733: the request fails, the error is
\* logged and None is returned; trans.strip() then raises AttributeError,
\* which nothing in translate_line_by_line catches
SecondaryFail ==
    /\ pc = "secondary"
    /\ secRet' = E
    /\ secCalls' = secCalls + 1
    /\ pc' = "raised"
    /\ UNCHANGED <<lines, file, i, results, req, attempt, delays, served, primaryRet,
                   flagged, checks, existed, called, order, finalizedNow, wrote,
                   committed, restarts>>
    /\ UNCHANGED <<sweepVars, callVars, pairVars>>

\* line 432: open(trans_file, "w")
WriteOpen ==
    /\ pc = "write"
    /\ file' = [exists |-> TRUE, text |-> OpenForWrite(file.text)]
    /\ pc' = "flush"
    /\ UNCHANGED <<lines, i, results, req, attempt, delays, served, primaryRet, flagged,
                   checks, secCalls, secRet, existed, called, order, finalizedNow, wrote,
                   committed, restarts>>
    /\ UNCHANGED <<sweepVars, callVars, pairVars>>

\* lines 433-435: the data reaches the file as the with-block closes it; the
\* loop moves on and the entry's locals are dead
WriteFlush ==
    /\ pc = "flush"
    /\ file' = [exists |-> TRUE, text |-> file.text \o WriteText(results)]
    /\ wrote' = TRUE
    /\ i' = NextIndex(i)
    /\ pc' = "loop"
    /\ req' = E
    /\ attempt' = 0
    /\ delays' = E
    /\ served' = E
    /\ primaryRet' = E
    /\ flagged' = FALSE
    /\ checks' = 0
    /\ secCalls' = 0
    /\ secRet' = E
    /\ UNCHANGED <<lines, results, existed, called, order, finalizedNow, committed, restarts>>
    /\ UNCHANGED <<sweepVars, callVars, pairVars>>

\* line 437
Return ==
    /\ pc = "loop"
    /\ i >= total
    /\ pc' = "done"
    /\ UNCHANGED <<lines, file, i, results, req, attempt, delays, served, primaryRet,
                   flagged, checks, secCalls, secRet, existed, called, order,
                   finalizedNow, wrote, committed, restarts>>
    /\ UNCHANGED <<sweepVars, callVars, pairVars>>

\* the process is stopped from outside (kill, power loss) between two steps
Interrupt ==
    /\ pc \in {"loop", "primary", "secondary", "write", "flush"}
    /\ restarts < MaxRestarts
    /\ pc' = "stopped"
    /\ UNCHANGED <<lines, file, i, results, req, attempt, delays, served, primaryRet,
                   flagged, checks, secCalls, secRet, existed, called, order,
                   finalizedNow, wrote, committed, restarts>>
    /\ UNCHANGED <<sweepVars, callVars, pairVars>>

\* translate_line_by_line is invoked again on the same lines and file
Reinvoke ==
    /\ pc \in {"stopped", "raised", "done"}
    /\ restarts < MaxRestarts
    /\ restarts' = restarts + 1
    /\ committed' = [k \in 1..total |-> IF k <= i THEN results[k] ELSE E]
    /\ pc' = "start"
    /\ i' = 0
    /\ results' = E
    /\ req' = E
    /\ attempt' = 0
    /\ delays' = E
    /\ served' = E
    /\ primaryRet' = E
    /\ flagged' = FALSE
    /\ checks' = 0
    /\ secCalls' = 0
    /\ secRet' = E
    /\ existed' = E
    /\ called' = {}
    /\ order' = E
    /\ finalizedNow' = {}
    /\ wrote' = FALSE
    /\ UNCHANGED <<lines, file>>
    /\ UNCHANGED <<sweepVars, callVars, pairVars>>

Next ==
    \/ Start
    \/ LoopSkip
    \/ LoopTranslate
    \/ LoopPrefixOnly
    \/ PrimaryOk
    \/ PrimaryRetry
    \/ PrimaryExhausted
    \/ SecondaryOk
    \/ SecondaryFail
    \/ WriteOpen
    \/ WriteFlush
    \/ Return
    \/ Interrupt
    \/ Reinvoke

Spec == Init /\ [][Next]_vars

----------------------------------------------------------------------------
(* translate_toc: build_files_config, then export_toc_to_xml               *)

\* translate_toc is called with a prefix; the intermediate files are as
\* earlier runs left them
SweepInit ==
    /\ artifacts \in [FileNames -> ArtifactStates]
    /\ atEntry = artifacts
    /\ spc = "scan"
    /\ fidx = 0
    /\ any_expired = FALSE
    /\ outline \in Outlines
    /\ data = [f \in FileNames |-> IF artifacts[f].exists THEN Stored(f, outline) ELSE E]
    /\ FlowLocals

InitSweep == RunIdle /\ SweepInit /\ CallIdle /\ PairIdle

\* lines 471-474: a critical file is expired, break
ScanExpired ==
    /\ spc = "scan"
    /\ fidx < Len(critical_files)
    /\ IsExpired(artifacts[critical_files[fidx + 1]])
    /\ any_expired' = TRUE
    /\ spc' = "clean"
    /\ fidx' = 0
    /\ UNCHANGED <<artifacts, atEntry>>
    /\ UNCHANGED flowVars
    /\ UNCHANGED <<runVars, callVars, pairVars>>

\* lines 471-472: the critical file is missing or recent
ScanNext ==
    /\ spc = "scan"
    /\ fidx < Len(critical_files)
    /\ ~IsExpired(artifacts[critical_files[fidx + 1]])
    /\ fidx' = fidx + 1
    /\ UNCHANGED <<artifacts, atEntry, spc, any_expired>>
    /\ UNCHANGED flowVars
    /\ UNCHANGED <<runVars, callVars, pairVars>>

\* lines 476, 485: nothing expired, the files are kept
ReturnKept ==
    /\ spc = "scan"
    /\ fidx = Len(critical_files)
    /\ spc' = "returned"
    /\ UNCHANGED <<artifacts, atEntry, fidx, any_expired>>
    /\ UNCHANGED flowVars
    /\ UNCHANGED <<runVars, callVars, pairVars>>

\* lines 478-481: f.unlink()
Unlink ==
    /\ spc = "clean"
    /\ fidx < Len(files)
    /\ ShouldUnlink(artifacts[files[fidx + 1]])
    /\ artifacts' = [artifacts EXCEPT ![files[fidx + 1]] = Missing]
    /\ data' = [data EXCEPT ![files[fidx + 1]] = E]
    /\ fidx' = fidx + 1
    /\ UNCHANGED <<atEntry, spc, any_expired>>
    /\ UNCHANGED <<outline, written, guideResp, guide, genCalls, english, chinese,
                   retval, cause>>
    /\ UNCHANGED <<runVars, callVars, pairVars>>

\* lines 478-479: the file does not exist
UnlinkSkip ==
    /\ spc = "clean"
    /\ fidx < Len(files)
    /\ ~ShouldUnlink(artifacts[files[fidx + 1]])
    /\ fidx' = fidx + 1
    /\ UNCHANGED <<artifacts, atEntry, spc, any_expired>>
    /\ UNCHANGED flowVars
    /\ UNCHANGED <<runVars, callVars, pairVars>>

\* line 485 after the clean-up
ReturnCleaned ==
    /\ spc = "clean"
    /\ fidx = Len(files)
    /\ spc' = "returned"
    /\ UNCHANGED <<artifacts, atEntry, fidx, any_expired>>
    /\ UNCHANGED flowVars
    /\ UNCHANGED <<runVars, callVars, pairVars>>

\* translate_toc line 623, export_toc_to_xml lines 496-522: the outline has
\* entries besides the cover and the snapshot is written
ExportWritten ==
    /\ spc = "returned"
    /\ Kept(outline) # E
    /\ artifacts' = [artifacts EXCEPT !["toc_xml_file"] = Fresh]
    /\ data' = [data EXCEPT !["toc_xml_file"] = ExportTree(outline)]
    /\ written' = written \cup {"toc_xml_file"}
    /\ spc' = "exported"
    /\ UNCHANGED <<atEntry, fidx, any_expired>>
    /\ UNCHANGED <<outline, guideResp, guide, genCalls, english, chinese, retval, cause>>
    /\ UNCHANGED <<runVars, callVars, pairVars>>

\* export_toc_to_xml lines 493-501, translate_toc lines 623-624: no outline,
\* or nothing but the cover; translate_toc returns
ExportNothing ==
    /\ spc = "returned"
    /\ Kept(outline) = E
    /\ retval' = NOT_EXIST
    /\ cause' = "no_toc"
    /\ spc' = "ended"
    /\ UNCHANGED <<artifacts, atEntry, fidx, any_expired>>
    /\ UNCHANGED <<outline, data, written, guideResp, guide, genCalls, english, chinese>>
    /\ UNCHANGED <<runVars, callVars, pairVars>>

\* export_toc_to_xml lines 524-526, translate_toc lines 623-624: opening or
\* reading the PDF raises
ExportError ==
    /\ spc = "returned"
    /\ retval' = NOT_EXIST
    /\ cause' = "export_error"
    /\ spc' = "ended"
    /\ UNCHANGED <<artifacts, atEntry, fidx, any_expired>>
    /\ UNCHANGED <<outline, data, written, guideResp, guide, genCalls, english, chinese>>
    /\ UNCHANGED <<runVars, callVars, pairVars>>

\* translate_toc lines 627-636: the content file is missing or old and is
\* written from the snapshot
ContentExtract ==
    /\ spc = "exported"
    /\ ~is_file_recent(artifacts["content_file"])
    /\ artifacts' = [artifacts EXCEPT !["content_file"] = Fresh]
    /\ data' = [data EXCEPT !["content_file"] = TitlesOf(data["toc_xml_file"])]
    /\ written' = written \cup {"content_file"}
    /\ spc' = "contented"
    /\ UNCHANGED <<atEntry, fidx, any_expired>>
    /\ UNCHANGED <<outline, guideResp, guide, genCalls, english, chinese, retval, cause>>
    /\ UNCHANGED <<runVars, callVars, pairVars>>

\* translate_toc lines 637-640: the content file is recent and is kept
ContentCached ==
    /\ spc = "exported"
    /\ is_file_recent(artifacts["content_file"])
    /\ spc' = "contented"
    /\ UNCHANGED <<artifacts, atEntry, fidx, any_expired>>
    /\ UNCHANGED flowVars
    /\ UNCHANGED <<runVars, callVars, pairVars>>

\* generate_translation_guide lines 356-359: the guide file is read
GuideLoad ==
    /\ spc = "contented"
    /\ GuideCached(artifacts["prompt_file"])
    /\ guide' = data["prompt_file"]
    /\ spc' = "guided"
    /\ UNCHANGED <<artifacts, atEntry, fidx, any_expired>>
    /\ UNCHANGED <<outline, data, written, guideResp, genCalls, english, chinese,
                   retval, cause>>
    /\ UNCHANGED <<runVars, callVars, pairVars>>

\* an empty answer is returned and not stored
GuideGenerate_unstored ==
    /\ spc = "contented"
    /\ ~GuideCached(artifacts["prompt_file"])
    /\ \E resp \in {<<"g">>, <<" ", "h", "\n">>, E} :
          /\ guideResp' = <<resp>>
          /\ guide' = GuideValue(resp)
          /\ IF GuideValue(resp) = E
             THEN UNCHANGED <<data, artifacts, written>>
             ELSE /\ data' = [data EXCEPT !["prompt_file"] = GuideValue(resp) \o <<"\n">>]
                  /\ artifacts' = [artifacts EXCEPT !["prompt_file"] = Fresh]
                  /\ written' = written \cup {"prompt_file"}
    /\ genCalls' = genCalls + 1
    /\ spc' = "guided"
    /\ UNCHANGED <<atEntry, fidx, any_expired>>
    /\ UNCHANGED <<outline, english, chinese, retval, cause>>
    /\ UNCHANGED <<runVars, callVars, pairVars>>

\* generate_translation_guide lines 361-373: one ollama_chat call, which
\* returns a text or, with every attempt failed, ""; the result is written
GuideGenerate ==
    /\ spc = "contented"
    /\ ~GuideCached(artifacts["prompt_file"])
    /\ \E resp \in {<<"g">>, <<" ", "h", "\n">>, E} :
          /\ guideResp' = <<resp>>
          /\ data' = [data EXCEPT !["prompt_file"] = GuideValue(resp) \o <<"\n">>]
          /\ guide' = GuideValue(resp)
    /\ genCalls' = genCalls + 1
    /\ artifacts' = [artifacts EXCEPT !["prompt_file"] = Fresh]
    /\ written' = written \cup {"prompt_file"}
    /\ spc' = "guided"
    /\ UNCHANGED <<atEntry, fidx, any_expired>>
    /\ UNCHANGED <<outline, english, chinese, retval, cause>>
    /\ UNCHANGED <<runVars, callVars, pairVars>>

\* translate_toc lines 643-658: the content lines are translated by
\* translate_line_by_line and the translation file is written
TranslateLines ==
    /\ spc = "guided"
    /\ english' = StrippedLines(data["content_file"])
    /\ chinese' \in Translations(StrippedLines(data["content_file"]),
                                 RStripAll(data["translation_file"]))
    /\ data' = [data EXCEPT !["translation_file"] = chinese']
    /\ artifacts' = [artifacts EXCEPT !["translation_file"] = Fresh]
    /\ written' = written \cup {"translation_file"}
    /\ spc' = "translated"
    /\ UNCHANGED <<atEntry, fidx, any_expired>>
    /\ UNCHANGED <<outline, guideResp, guide, genCalls, retval, cause>>
    /\ UNCHANGED <<runVars, callVars, pairVars>>

\* translate_toc line 647: translate_line_by_line raises (a failed secondary
\* request), and translate_toc with it
TranslateRaises ==
    /\ spc = "guided"
    /\ english' = StrippedLines(data["content_file"])
    /\ english' # E
    /\ cause' = "translate_raised"
    /\ spc' = "raised"
    /\ UNCHANGED <<artifacts, atEntry, fidx, any_expired>>
    /\ UNCHANGED <<outline, data, written, guideResp, guide, genCalls, chinese, retval>>
    /\ UNCHANGED <<runVars, callVars, pairVars>>

\* replace_bookmark_names_by_order lines 531-537, translate_toc lines
\* 661-664: the counts of non-empty lines differ
ReplaceMismatch ==
    /\ spc = "translated"
    /\ ~Aligned(StrippedLines(data["content_file"]), StrippedLines(data["translation_file"]))
    /\ retval' = NOT_EXIST
    /\ cause' = "alignment"
    /\ spc' = "ended"
    /\ UNCHANGED <<artifacts, atEntry, fidx, any_expired>>
    /\ UNCHANGED <<outline, data, written, guideResp, guide, genCalls, english, chinese>>
    /\ UNCHANGED <<runVars, callVars, pairVars>>

\* replace_bookmark_names_by_order lines 539-554, translate_toc lines
\* 666-682: the translated tree is written and its path returned
ReplaceWritten ==
    /\ spc = "translated"
    /\ Aligned(StrippedLines(data["content_file"]), StrippedLines(data["translation_file"]))
    /\ data' = [data EXCEPT !["trans_xml_file"] =
                   ReplaceNames(data["toc_xml_file"],
                                StrippedLines(data["content_file"]),
                                StrippedLines(data["translation_file"]))]
    /\ artifacts' = [artifacts EXCEPT !["trans_xml_file"] = Fresh]
    /\ written' = written \cup {"trans_xml_file"}
    /\ retval' = "trans.xml"
    /\ cause' = "done"
    /\ spc' = "ended"
    /\ UNCHANGED <<atEntry, fidx, any_expired>>
    /\ UNCHANGED <<outline, guideResp, guide, genCalls, english, chinese>>
    /\ UNCHANGED <<runVars, callVars, pairVars>>

\* replace_bookmark_names_by_order lines 555-557, translate_toc lines
\* 661-664: reading a file or parsing the snapshot raises
ReplaceError ==
    /\ spc = "translated"
    /\ retval' = NOT_EXIST
    /\ cause' = "rebuild_error"
    /\ spc' = "ended"
    /\ UNCHANGED <<artifacts, atEntry, fidx, any_expired>>
    /\ UNCHANGED <<outline, data, written, guideResp, guide, genCalls, english, chinese>>
    /\ UNCHANGED <<runVars, callVars, pairVars>>

NextSweep ==
    \/ ScanExpired
    \/ ScanNext
    \/ ReturnKept
    \/ Unlink
    \/ UnlinkSkip
    \/ ReturnCleaned
    \/ ExportWritten
    \/ ExportNothing
    \/ ExportError
    \/ ContentExtract
    \/ ContentCached
    \/ GuideLoad
    \/ GuideGenerate
    \/ TranslateLines
    \/ TranslateRaises
    \/ ReplaceMismatch
    \/ ReplaceWritten
    \/ ReplaceError

SpecSweep == InitSweep /\ [][NextSweep]_vars

----------------------------------------------------------------------------
(* batch_03_toc.translate_toc called again for the same PDF and prefix     *)

\* the time between two calls: none to speak of, enough to move a file on
\* the edge of the window beyond it, or more than the window
Elapsed == {"none", "short", "long"}

\* a file after that time
Aged(f, el) ==
    IF f.exists /\ (el = "long" \/ (el = "short" /\ f.age = HOURS_RECENT))
    THEN [f EXCEPT !.age = HOURS_RECENT + 1]
    ELSE f

\* translate_toc line 608, after an earlier call has returned or raised: the
\* files are as that call left them, the locals are new
Rerun ==
    /\ spc \in {"ended", "raised"}
    /\ \E el \in Elapsed :
          artifacts' = [f \in FileNames |-> Aged(artifacts[f], el)]
    /\ atEntry' = artifacts'
    /\ spc' = "scan"
    /\ fidx' = 0
    /\ any_expired' = FALSE
    /\ written' = {}
    /\ guideResp' = E
    /\ guide' = E
    /\ genCalls' = 0
    /\ english' = E
    /\ chinese' = E
    /\ retval' = "none"
    /\ cause' = "none"
    /\ UNCHANGED <<outline, data>>
    /\ UNCHANGED <<runVars, callVars, pairVars>>

NextRerun == NextSweep \/ Rerun

\* the first call for a prefix finds none of its files
InitRerun == InitSweep /\ artifacts = [f \in FileNames |-> Missing]

SpecRerun == InitRerun /\ [][NextRerun]_vars

----------------------------------------------------------------------------
(* Properties of build_files_config                                        *)

\* some control artifact existed and was older than the window
StaleAtEntry ==
    \E k \in 1..Len(critical_files) :
        /\ atEntry[critical_files[k]].exists
        /\ atEntry[critical_files[k]].age > HOURS_RECENT

C36_RecentKeepsAll ==
    (\A f \in {"toc_xml_file", "content_file", "prompt_file", "translation_file"} :
        ~(atEntry[f].exists /\ atEntry[f].age > HOURS_RECENT))
    => /\ spc # "clean"
       /\ ~any_expired
       /\ spc \in {"scan", "returned"}
             => /\ artifacts = atEntry
                /\ data = [f \in FileNames |->
                             IF atEntry[f].exists THEN Stored(f, outline) ELSE E]
       /\ (spc = "translated" /\ atEntry["translation_file"].exists)
             => /\ chinese # E
                /\ chinese[1] = S_Done
                /\ artifacts["trans_xml_file"] = atEntry["trans_xml_file"]

\* the control artifacts were on the edge of the window and the translated
\* tree beyond it; the tree is still there after the translation step, which
\* kept the stored first line
C36_Witness ==
    /\ spc = "translated"
    /\ \A k \in 1..Len(critical_files) :
          atEntry[critical_files[k]] = [exists |-> TRUE, age |-> HOURS_RECENT]
    /\ atEntry["trans_xml_file"] = [exists |-> TRUE, age |-> HOURS_RECENT + 1]
    /\ artifacts["trans_xml_file"] = atEntry["trans_xml_file"]
    /\ Len(chinese) = 2
    /\ chinese[1] = S_Done

----------------------------------------------------------------------------
(* Properties of translate_toc                                             *)

\* the number of non-empty lines a file holds
Count(f) == Len(StrippedLines(data[f]))

\* C15: when the content file and the translation file hold different
\* numbers of non-empty lines, translate_toc writes no translated tree and
\* returns the failure path (it does not raise)
C15_MismatchAborts ==
    (spc = "ended" /\ "translation_file" \in written
        /\ Count("content_file") # Count("translation_file"))
    => /\ retval = NOT_EXIST
       /\ "trans_xml_file" \notin written
       /\ data["trans_xml_file"] \in {E, Stored("trans_xml_file", outline)}

C15_Witness ==
    /\ spc = "ended"
    /\ cause = "alignment"
    /\ Count("content_file") = 2
    /\ Count("translation_file") = 1
    /\ retval = NOT_EXIST

\* C16: the value translate_toc returns for an empty filtered outline is
\* never the value it returns after an error (export exception, alignment
\* failure, rebuild failure)
C16_NoTocDistinct ==
    (spc = "ended" /\ cause \in {"export_error", "alignment", "rebuild_error"})
    => retval # NOT_EXIST

\* C17: a run that finds the snapshot file fresh (and nothing stale, so the
\* sweep keeps it) does not write the snapshot file
C17_FreshSnapshotKept ==
    (is_file_recent(atEntry["toc_xml_file"]) /\ ~StaleAtEntry)
    => "toc_xml_file" \notin written

\* C18: generate_translation_guide with the guide file present returns the
\* stored text, asks for nothing and leaves the file alone; with the file
\* absent it asks once and stores the stripped answer; no run asks twice
C18_GuideOnce ==
    /\ [][(spc = "contented" /\ spc' = "guided") =>
            IF artifacts["prompt_file"].exists
            THEN /\ guide' = data["prompt_file"]
                 /\ genCalls' = genCalls
                 /\ data' = data
                 /\ artifacts' = artifacts
                 /\ "prompt_file" \notin written'
            ELSE /\ genCalls' = genCalls + 1
                 /\ guide' = Strip(guideResp'[1])
                 /\ data'["prompt_file"] = guide' \o <<"\n">>
                 /\ artifacts'["prompt_file"].exists
                 /\ "prompt_file" \in written']_vars
    /\ [](genCalls <= 1)

C18_Witness ==
    /\ spc = "guided"
    /\ genCalls = 0
    /\ guide = <<"g", "\n">>
    /\ "prompt_file" \notin written

\* C19: when the one generation request comes back empty (every attempt
\* failed), the guide is empty, the guide file holds an empty line, and the
\* line translation follows and returns one entry per content line
C19_EmptyGuideProceeds ==
    (genCalls = 1 /\ guideResp = <<E>>)
    => /\ guide = E
       /\ data["prompt_file"] = <<"\n">>
       /\ spc = "guided" =>
             Translations(StrippedLines(data["content_file"]),
                          RStripAll(data["translation_file"])) # {}
       /\ spc = "translated" =>
             /\ english = StrippedLines(data["content_file"])
             /\ Len(chinese) = Len(english)

C19_Witness ==
    /\ spc = "translated"
    /\ genCalls = 1
    /\ guideResp = <<E>>
    /\ guide = E
    /\ Len(chinese) = 2
    /\ chinese[1] # E

\* C21: the translated tree has the nodes of the snapshot tree, in the same
\* order and under the same parents, each with its level and page; a title
\* differs only where the cleaned original title is a key of the map; the
\* snapshot file still holds the exported tree
C21_OnlyTitlesChange ==
    (spc = "ended" /\ cause = "done")
    => /\ data["toc_xml_file"] = ExportTree(outline)
       /\ Len(data["trans_xml_file"]) = Len(data["toc_xml_file"])
       /\ \A k \in DOMAIN data["toc_xml_file"] :
             /\ data["trans_xml_file"][k].PAGE = data["toc_xml_file"][k].PAGE
             /\ data["trans_xml_file"][k].LEVEL = data["toc_xml_file"][k].LEVEL
             /\ data["trans_xml_file"][k].parent = data["toc_xml_file"][k].parent
             /\ data["trans_xml_file"][k].NAME # data["toc_xml_file"][k].NAME
                   => \E j \in DOMAIN english :
                         english[j] = Strip(deep_clean_title(data["toc_xml_file"][k].NAME))

\* the tree of Repeated is rebuilt: the titled nodes are renamed and the
\* node with the blank title, which is no key, keeps it
C21_Witness ==
    /\ spc = "ended"
    /\ cause = "done"
    /\ outline = Repeated
    /\ data["trans_xml_file"][1].NAME # data["toc_xml_file"][1].NAME
    /\ data["trans_xml_file"][2].NAME = E
    /\ data["trans_xml_file"][2].parent = 1
    /\ data["trans_xml_file"][3].parent = 0

\* C22: nodes whose cleaned original titles are equal carry the same title
\* in the translated tree
C22_DuplicatesShare ==
    (spc = "ended" /\ cause = "done")
    => \A j, k \in DOMAIN data["toc_xml_file"] :
          Strip(deep_clean_title(data["toc_xml_file"][j].NAME))
             = Strip(deep_clean_title(data["toc_xml_file"][k].NAME))
          => data["trans_xml_file"][j].NAME = data["trans_xml_file"][k].NAME

\* the two lines of Repeated were translated differently and both nodes
\* carry the second translation
C22_Witness ==
    /\ spc = "ended"
    /\ cause = "done"
    /\ outline = Repeated
    /\ chinese[1] # chinese[2]
    /\ data["trans_xml_file"][1].NAME = chinese[2]
    /\ data["trans_xml_file"][3].NAME = chinese[2]

\* C38: a call whose one generation request came back empty leaves the guide
\* file in place with an empty line; the file and its text pass to the next
\* call; a call that finds the file and no control artifact older than the
\* window asks for no guide and takes the text of the file; and the guide
\* file goes only in the clean-up of build_files_config
C38_EmptyGuideKept ==
    /\ []((genCalls = 1 /\ guideResp = <<E>>)
            => /\ artifacts["prompt_file"].exists
               /\ data["prompt_file"] = <<"\n">>)
    /\ [][(spc \in {"ended", "raised"} /\ spc' = "scan")
            => /\ data' = data
               /\ \A f \in FileNames : artifacts'[f].exists = artifacts[f].exists]_vars
    /\ []((atEntry["prompt_file"].exists /\ ~StaleAtEntry)
            => /\ genCalls = 0
               /\ spc \in {"guided", "translated"} => guide = data["prompt_file"])
    /\ [][(artifacts["prompt_file"].exists /\ ~artifacts'["prompt_file"].exists)
            => (spc = "clean" /\ any_expired /\ StaleAtEntry)]_vars

\* a later call, with a short time gone by, has taken the empty guide of an
\* earlier call from the file and asked for nothing
C38_Witness ==
    /\ spc = "guided"
    /\ atEntry["prompt_file"] = Fresh
    /\ data["prompt_file"] = <<"\n">>
    /\ guide = <<"\n">>
    /\ genCalls = 0
    /\ "prompt_file" \notin written

----------------------------------------------------------------------------
(* Properties of translate_line_by_line                                    *)

\* C1: at every point of translate_line_by_line, and in the value it returns,
\* results has exactly as many entries as lines, whatever the translation file
\* held and whichever calls failed.
C1_LengthPreserved == pc # "start" => Len(results) = Len(lines)

\* a finished two-line run that found three stored lines and fell back to the
\* source text for its first entry
C1_Witness ==
    /\ pc = "done"
    /\ total = 2
    /\ Len(existed) = 3
    /\ results[1] = T_Preface
    /\ 0 \in called

\* the positions the translation file filled when the run started
Filled == {k \in 1..total : k <= Len(existed) /\ existed[k] # E}

\* C2: a position that the translation file already fills keeps its stored
\* text, in results and in the rewritten file, and no backend is called for
\* it; the run computes exactly the other positions.
C2_ResumeKeepsFilled ==
    pc # "start" =>
        \A k \in 1..total :
            IF k \in Filled
            THEN /\ results[k] = existed[k]
                 /\ (k - 1) \notin called
                 /\ (k - 1) \notin finalizedNow
                 /\ (wrote /\ pc \in {"loop", "primary", "secondary", "write", "done", "raised"}
                       => /\ k <= Len(ReadLines(file.text))
                          /\ ReadLines(file.text)[k] = existed[k])
            ELSE pc = "done" => (k - 1) \in finalizedNow

\* a finished run that kept a stored line and translated another
C2_Witness ==
    /\ pc = "done"
    /\ Filled # {}
    /\ called # {}
    /\ wrote

\* C4: a re-invocation after an interruption restores from the translation
\* file every non-empty entry the interrupted run had completed before the
\* entry in flight.
C4_ResumeRecoversFinalized ==
    [][pc = "start" =>
         \A k \in 1..total : committed[k] # E => results'[k] = committed[k]]_vars

\* C5: once an entry is finalized, and before the next entry is translated,
\* the translation file holds exactly the current results, one line per input
\* entry and nothing of its earlier content, with every entry finalized so far
\* on the line of its own index.
C5_WholeRewrite ==
    (finalizedNow # {} /\ pc \in {"loop", "primary", "secondary", "done", "raised"})
        => /\ wrote
           /\ file.exists
           /\ file.text = WriteText(results)
           /\ Len(ReadLines(file.text)) = total
           /\ \A j \in finalizedNow : ReadLines(file.text)[j + 1] = results[j + 1]

\* the second entry is being translated after the first was finalized, and
\* the file had held three lines before the run
C5_Witness ==
    /\ pc = "primary"
    /\ i = 1
    /\ 0 \in finalizedNow
    /\ results[1] # E
    /\ Len(existed) = 3

\* C6: entries are taken up in strictly increasing index order; while a
\* backend is being called for entry i, every entry called or finalized
\* before has a smaller index and is finalized, and entry i itself has not
\* been finalized.
C6_IncreasingOrder ==
    /\ \A a, b \in 1..Len(order) : a < b => order[a] < order[b]
    /\ pc \in {"primary", "secondary"}
          => /\ i \notin finalizedNow
             /\ \A j \in called \cup finalizedNow : j <= i
             /\ \A j \in called \ {i} : j \in finalizedNow

\* a backend is called for the second entry after the first was finalized
\* with an empty text
C6_Witness ==
    /\ pc = "primary"
    /\ order = <<0, 1>>
    /\ 0 \in finalizedNow
    /\ results[1] = E

\* C7: no failure of a translation backend is raised out of
\* translate_line_by_line.
C7_NeverRaised == pc # "raised"

\* C8: ollama_chat makes at most MAX_RETRIES attempts; it sleeps RETRY_DELAY
\* after every failed attempt but the last; it returns the text of the first
\* attempt that succeeds, and "" when all MAX_RETRIES attempts fail.
C8_BoundedRetries ==
    /\ attempt <= MAX_RETRIES
    /\ \A k \in 1..Len(delays) : delays[k] = RETRY_DELAY
    /\ pc = "primary"
          => /\ primaryRet = E
             /\ served = E
             /\ attempt < MAX_RETRIES
             /\ Len(delays) = attempt
    /\ primaryRet # E
          => IF served # E
             THEN /\ primaryRet = served
                  /\ Len(delays) = attempt - 1
             ELSE /\ primaryRet = <<E>>
                  /\ attempt = MAX_RETRIES
                  /\ Len(delays) = MAX_RETRIES - 1

\* ollama_chat has returned "" after MAX_RETRIES failed attempts
C8_Witness ==
    /\ pc = "write"
    /\ primaryRet = <<E>>
    /\ served = E
    /\ attempt = MAX_RETRIES
    /\ delays = <<RETRY_DELAY, RETRY_DELAY>>

\* the original text of an entry: the line, or the localized prefix and the
\* bare title
EchoOf(t, eng) ==
    IF t.num = E THEN eng ELSE _fmt_prefix(t.typ, t.num) \o <<" ">> \o t.title

\* C9: when the primary call returns "" for an entry, the entry is finalized
\* as its original text (the source line, or the localized prefix followed by
\* the original bare title), the secondary backend is not involved, and the
\* run goes on to write the file and take the next entry.
C9_EmptyEchoes ==
    primaryRet = <<E>>
        => /\ pc \in {"write", "flush", "stopped"}
           /\ secCalls = 0
           /\ i \in finalizedNow
           /\ results[i + 1] = EchoOf(parse_toc_triple(Eng), Eng)

\* a numbered entry finalized after an empty response
C9_Witness ==
    /\ pc = "write"
    /\ primaryRet = <<E>>
    /\ Eng = T_Chapter
    /\ results[i + 1] =
          <<"<di>", "0", "7", "<zhang>", " ", "C", "o", "n", "s", "e", "n", "s", "u", "s">>

\* C10: for each entry the detector runs once, on the primary result; the
\* secondary backend is called once if that result is flagged and not at all
\* otherwise; the secondary result is finalized as it is, without another
\* detector run.
C10_EscalateOnce ==
    /\ checks <= 1
    /\ secCalls <= 1
    /\ pc = "secondary"
          => /\ has_explanatory_note(req, primaryRet[1])
             /\ secCalls = 0
    /\ (pc \in {"write", "flush"} /\ primaryRet # E)
          => /\ checks = 1
             /\ secCalls = (IF has_explanatory_note(req, primaryRet[1]) THEN 1 ELSE 0)
             /\ secCalls = 1
                   => /\ secRet # E
                      /\ results[i + 1] = FinalText(Eng, secRet[1])

\* a secondary result that the detector would flag has been finalized
C10_Witness ==
    /\ pc = "write"
    /\ secCalls = 1
    /\ checks = 1
    /\ secRet = <<R2_Note>>
    /\ has_explanatory_note(req, R2_Note)
    /\ results[i + 1] # E

\* C12: the text handed to the primary backend and, on escalation, to the
\* secondary backend is the parsed bare title when the parser found a
\* numbering token, without keyword or token, and the whole title otherwise.
C12_BareTitleSubmitted ==
    pc \in {"primary", "secondary"}
        => /\ req = (IF parse_toc_triple(Eng).num = E
                     THEN Eng
                     ELSE parse_toc_triple(Eng).title)
           /\ Eng = T_Chapter => req = <<"C", "o", "n", "s", "e", "n", "s", "u", "s">>
           /\ Eng = T_Preface => req = T_Preface

\* the bare title of "Chapter 7: Consensus" is with the secondary backend
C12_Witness ==
    /\ pc = "secondary"
    /\ Eng = T_Chapter
    /\ parse_toc_triple(Eng).num = <<"7">>
    /\ req = <<"C", "o", "n", "s", "e", "n", "s", "u", "s">>

\* the lines of a run that are a numbering token and no bare title
TokenTitles ==
    {l \in Titles : /\ parse_toc_triple(Strip(l)).num # E
                    /\ parse_toc_triple(Strip(l)).title = E}

\* the localized prefix of each of them
TokenPrefix ==
    [l \in TokenTitles |-> _fmt_prefix(parse_toc_triple(Strip(l)).typ,
                                       parse_toc_triple(Strip(l)).num)]

\* C33: an entry whose line is a numbering token, with or without a keyword,
\* and no bare title is finalized as the localized prefix and nothing else,
\* and neither backend is called for it
C33_PrefixAlone ==
    \A k \in finalizedNow :
        lines[k + 1] \in TokenTitles
            => /\ results[k + 1] = TokenPrefix[lines[k + 1]]
               /\ lines[k + 1] = T_Exercise
                     => results[k + 1] = <<"<lian>", "<xi>", "1", "-", "1", "8">>
               /\ k \notin called
               /\ (k = i /\ pc = "write") => (req = E /\ attempt = 0 /\ secCalls = 0)

\* "Exercise 1-18" as the second entry, finalized after a translated first
\* entry, about to be written
C33_Witness ==
    /\ pc = "write"
    /\ i = 1
    /\ lines[2] = T_Exercise
    /\ finalizedNow = {0, 1}
    /\ called = {0}
    /\ results[2] = <<"<lian>", "<xi>", "1", "-", "1", "8">>

\* C35: every entry the run has finalized for a non-empty line is non-empty,
\* whatever the backends returned
C35_FinalizedNonEmpty ==
    \A k \in finalizedNow : Strip(lines[k + 1]) # E => results[k + 1] # E

----------------------------------------------------------------------------
(* Single calls of the text functions                                      *)

Src_Dressing ==
    <<"D", "r", "e", "s", "s", "i", "n", "g", " ", "f", "o", "r", " ",
      "S", "u", "c", "c", "e", "s", "s">>

Src_TwoLines == <<"P", "a", "r", "t", " ", "A", "\n", "P", "a", "r", "t", " ", "B">>

\* sources handed to the detector
NoteSources == {Src_Dressing, T_Preface, Src_TwoLines}

Tr_TwoLineNote ==
    <<"<biao>", "<dan>", "\n", "<zhu>", "<colon>", "<gen>", "<ju>",
      "<shang>", "<xia>", "<wen>">>

Tr_TwoLinePlain == <<"<biao>", "<dan>", "\n", "<ji>", "<chu>">>

\* one-line translations without any of the patterns of has_explanatory_note_re
CleanOneLine ==
    { R_Plain, R2_Plain, S_Done, <<"<biao>", "<dan>">>,
      <<"S", "u", "c", "c", "e", "s", "s">> }

\* translations handed to the detector
NoteTranslations ==
    CleanOneLine
    \cup {Tr_TwoLineNote, Tr_TwoLinePlain, E}
    \cup {<<"x">> \o p \o <<"y">> : p \in NotePatterns}
    \cup { <<"<wu>", "<xu>", "<shuo>", "<ming>">>,
           <<"<wu>", "<xu>", "\n", "<shuo>", "<ming>">>,
           <<"<an>", "<zhao>", "x", "<zhi>", "<dao>">>,
           <<"<shuo>", "<ming>", "<wu>", "<xu>">> }

NoteCalls ==
    {[fn |-> "has_explanatory_note", a |-> s, b |-> tr] :
        s \in NoteSources, tr \in NoteTranslations}

T_Distributed ==
    <<"C", "h", "a", "p", "t", "e", "r", " ", "7", ":", " ",
      "D", "i", "s", "t", "r", "i", "b", "u", "t", "e", "d", " ",
      "C", "o", "n", "s", "e", "n", "s", "u", "s">>

Tr_Distributed == <<"<fen>", "<bu2>", "<shi6>", "<gong>", "<shi3>">>

\* translations of the bare title that begin with an echoed chapter prefix,
\* joined by a colon
ColonEchoes ==
    { <<"<di>", "7", "<zhang>", "<colon>">> \o Tr_Distributed,
      <<"<di>", "7", "<zhang>", ":">> \o Tr_Distributed,
      <<"<di>", " ", "7", " ", "<zhang>", ":", " ">> \o Tr_Distributed,
      <<"<di>", "0", "7", "<zhang>", "<colon>", " ">> \o Tr_Distributed }

\* the same, joined by a space
SpaceEchoes ==
    { <<"<di>", "7", "<zhang>", " ">> \o Tr_Distributed,
      <<"<di>", "0", "7", "<zhang>", " ">> \o Tr_Distributed,
      <<"<di>", " ", "7", " ", "<zhang>", " ">> \o Tr_Distributed }

\* an entry and the translation to finalize it with
FinalizeCalls ==
    {[fn |-> "finalize", a |-> s, b |-> tr] :
        s \in {T_Distributed, T_Chapter, T_Preface},
        tr \in {Tr_Distributed, R_Plain, E} \cup ColonEchoes \cup SpaceEchoes}

MaxOutline == 3

MaxLevel == 3

\* outlines of up to MaxOutline entries, with level jumps, a cover entry and
\* one- and two-digit pages
RoundTripCalls ==
    {[fn |-> "roundtrip", a |-> toc, b |-> E] :
        toc \in SeqsUpTo({OutlineEntry(l, ti, pg) :
                             l \in 1..MaxLevel,
                             ti \in {<<"F", "r", "o", "n", "t", " ", "C", "o", "v", "e", "r">>, <<"A">>},
                             pg \in {1, 12}},
                         MaxOutline)}

\* keywords as lines write them
LineKeywords ==
    { <<"C", "h", "a", "p", "t", "e", "r">>,
      <<"C", "H", "A", "P", "T", "E", "R">>,
      <<"p", "a", "r", "t">>,
      <<"C", "a", "s", "e", " ", "S", "t", "u", "d", "y">> }

\* the tokens the comments of prefix_num_patterns give, by pattern
NumberTokens ==
    << { <<"7">>,
         <<"1", "2">> },
       { <<"1", ".", "1">>,
         <<"1", ".", "2", ".", "2">> },
       { <<"1", "-", "3">> },
       { <<"C", "1">> },
       { <<"A", ".", "4">> },
       { <<"B", "-", "1">>,
         <<"C", "-", "2", ".", "1">> },
       { <<"A">> } >>

\* what separates a token from the title
TokenSeps ==
    { <<" ">>,
      <<":">>,
      <<":", " ">>,
      <<"<colon>">>,
      <<" ", " ", " ">>,
      <<" ", ":", " ">> }

BareTitles ==
    { <<"D", "i", "s", "t", "r", "i", "b", "u", "t", "e", "d", " ", "C", "o", "n", "s", "e", "n", "s", "u", "s">>,
      <<"A", " ", "B", "r", "i", "e", "f", " ", "H", "i", "s", "t", "o", "r", "y">> }

Tokens == UNION {NumberTokens[k] : k \in DOMAIN NumberTokens}

\* a line made of a keyword, white space, a token, a separator and a title
KeywordLine(kw, ws, tok, sep, ti) == kw \o ws \o tok \o sep \o ti

KeywordSpaces == {<<" ">>, <<" ", " ">>}

KeywordCalls ==
    {[fn |-> "parse", a |-> KeywordLine(kw, ws, tok, sep, ti), b |-> E] :
        kw \in LineKeywords, ws \in KeywordSpaces, tok \in Tokens,
        sep \in TokenSeps, ti \in BareTitles}
    \cup
    {[fn |-> "parse", a |-> KeywordLine(kw, ws, tok, sep, E), b |-> E] :
        kw \in LineKeywords, ws \in KeywordSpaces, tok \in Tokens,
        sep \in {E, <<":">>}}

\* lines made of a token, a separator and a title
NumberCalls ==
    {[fn |-> "parse", a |-> KeywordLine(E, E, tok, sep, ti), b |-> E] :
        tok \in Tokens, sep \in TokenSeps, ti \in BareTitles}

\* titles without a keyword followed by a token and without a leading token
PlainTitles ==
    { <<"D", "i", "s", "t", "r", "i", "b", "u", "t", "e", "d", " ", "C", "o", "n", "s", "e", "n", "s", "u", "s">>,
      <<"P", "r", "e", "f", "a", "c", "e">>,
      <<"C", "o", "n", "s", "e", "n", "s", "u", "s">>,
      <<"C", "h", "a", "p", "t", "e", "r", " ", "S", "u", "m", "m", "a", "r", "y">>,
      <<"T", "a", "b", "l", "e", " ", "o", "f", " ", "C", "o", "n", "t", "e", "n", "t", "s">>,
      <<"C", "h", "a", "p", "t", "e", "r", "s", " ", "7">>,
      <<"7", "t", "h", " ", "H", "e", "a", "v", "e", "n">> }

\* the same, and lines with a keyword that no token follows
UnstructuredLines ==
    PlainTitles
    \cup { <<"C", "h", "a", "p", "t", "e", "r", " ", "I", "V", ":", " ", "T", "i", "t", "l", "e">>,
         <<"c", "h", "a", "p", "t", "e", "r">>,
         <<"P", "a", "r", "t", " ", "O", "n", "e">>,
         <<"C", "a", "s", "e", " ", "S", "t", "u", "d", "y">> }

UnstructuredCalls ==
    {[fn |-> "parse", a |-> pre \o l \o post, b |-> E] :
        l \in UnstructuredLines \cup {E},
        pre \in {E, <<" ">>}, post \in {E, <<" ", "\t">>}}

ParseCalls == KeywordCalls \cup NumberCalls \cup UnstructuredCalls

\* types and numbers handed to _fmt_prefix
FormatCalls ==
    {[fn |-> "format", a |-> typ, b |-> num] :
        typ \in { <<"c", "h", "a", "p", "t", "e", "r">>,
               <<"C", "h", "a", "p", "t", "e", "r">>,
               <<"p", "a", "r", "t">>,
               <<"s", "e", "c", "t", "i", "o", "n">>,
               <<"a", "p", "p", "e", "n", "d", "i", "x">>,
               <<"v", "o", "l", "u", "m", "e">>,
               <<>> },
        num \in { <<"7">>,
               <<"0", "7">>,
               <<"0", "0", "7">>,
               <<"1", "2">>,
               <<"1", "0", "0">>,
               <<"I", "V">>,
               <<"B", "-", "1">>,
               <<"1", ".", "2">> }}

\* part numbers handed to _fmt_prefix: every value on both sides of the
\* threshold of line 216, with leading zeros, and numerals that are no digits
PartCalls ==
    {[fn |-> "format", a |-> typ, b |-> num] :
        typ \in { <<"p", "a", "r", "t">>, <<"P", "a", "r", "t">>, <<"P", "A", "R", "T">> },
        num \in {StrOf(n) : n \in 0..120}
                \cup { <<"0", "7">>, <<"0", "0", "7">>, <<"0", "2", "1">>,
                       <<"0", "1", "0", "0">>, <<"I", "V">>, <<"B", "-", "1">>,
                       <<"1", ".", "2">>, <<"O", "n", "e">> }}

MaxPieces == 3

\* pieces of bookmark names: letters, white space, character references and
\* their halves, and the characters deep_clean_title replaces or removes
NamePieces ==
    { <<"A">>, <<" ">>, <<"\n">>, <<"\t">>, <<"<nbsp>">>, <<"<zwsp>">>, <<"<bom>">>,
      <<"<surr>">>, <<"&", "#", "1", "0", ";">>, <<"&", "#", "x", "0", "D", ";">>,
      <<"&", "#", "1">>, <<"0", ";">> }

RECURSIVE Joined(_)
Joined(ps) == IF ps = E THEN E ELSE Head(ps) \o Joined(Tail(ps))

\* names handed to deep_clean_title
CleanCalls ==
    {[fn |-> "clean", a |-> Joined(ps), b |-> E] : ps \in SeqsUpTo(NamePieces, MaxPieces)}

MaxNodes == 2

\* snapshot trees of up to MaxNodes elements under the root, with titles
\* that are keys, a key with white space around it, and no key
ReplaceTrees ==
    UNION {[1..n -> {[NAME |-> ti, PAGE |-> <<"1">>, LEVEL |-> <<"1">>, parent |-> 0] :
                        ti \in { <<"A">>, <<"B">>, <<" ", "A", "\t">>, <<"Z">> }}] :
           n \in 0..MaxNodes}

\* content lines and translation lines; a translation may be the original
\* title of another element
ReplaceCalls ==
    {[fn |-> "replace", a |-> tree, b |-> <<orig, trans>>] :
        tree \in ReplaceTrees,
        orig \in SeqsUpTo({ <<"A">>, <<"B">> }, MaxNodes),
        trans \in SeqsUpTo({ <<"B">>, <<"C">>, <<"A">> }, MaxNodes)}

\* batch.py lines 285-305: the entry main builds for a file that
\* processing.json does not hold; trans_toc is a key of its "status" only
NewEntry == [top |-> "absent", trans_toc |-> FALSE, has_toc |-> TRUE]

\* batch.py lines 54-78: an entry found in processing.json is used as the
\* file holds it; top is the value of a top-level key trans_toc, trans_toc
\* the value of status.trans_toc, has_toc the value of keyinfo.has_toc
KnownEntries ==
    [top : {"absent", "False", "True"}, trans_toc : BOOLEAN, has_toc : BOOLEAN]

\* batch.py line 449: processed_info.get("trans_toc", "")
get_trans_toc(info) == IF info.top = "absent" THEN "" ELSE info.top

\* Python's v == False on these values: "" and True are not equal to False
EqualsFalse(v) == v = "False"

\* batch.py lines 448-454: has_toc after the test of line 449; f.is_file is
\* new_file.is_file(), f.outline the value of has_bookmarks(new_file)
has_toc_of(info, f) ==
    IF EqualsFalse(get_trans_toc(info))
    THEN IF f.is_file THEN f.outline ELSE FALSE
    ELSE TRUE

\* batch.py lines 457-465: translate_toc(new_file, prefix) is called;
\* f.xml is toc_trans_xml.is_file() at line 459
InvokesTranslate(info, f) ==
    /\ has_toc_of(info, f)
    /\ ~(info.trans_toc /\ f.xml)
    /\ f.is_file

\* batch.py lines 443-487: step 3 of the main loop for one document; a file
\* without outline makes translate_toc return toc_not_exist.xml, which is
\* no file, and f.translated tells whether the translation of an outline
\* leaves its tree on disk
TocPhase(info, f) ==
    [has_toc |-> IF has_toc_of(info, f) THEN info.has_toc ELSE FALSE,
     trans_toc |-> info.trans_toc
                      \/ (InvokesTranslate(info, f) /\ f.outline /\ f.translated),
     probed |-> EqualsFalse(get_trans_toc(info)) /\ f.is_file,
     invoked |-> InvokesTranslate(info, f)]

\* a JSON or Python truth value as the call carries it
Flag(b) == IF b THEN "True" ELSE "False"

\* the entry a document of the main loop comes with
EntryOf(a) == [top |-> a[1], trans_toc |-> a[2] = "True", has_toc |-> a[3] = "True"]

\* the state of the files a document of the main loop comes with
FilesOf(b) ==
    [is_file |-> b[1] = "True", outline |-> b[2] = "True", xml |-> b[3] = "True",
     translated |-> b[4] = "True"]

\* the documents of the main loop: the entry and the state of the files
PhaseCalls ==
    {[fn |-> "toc_phase",
      a |-> <<info.top, Flag(info.trans_toc), Flag(info.has_toc)>>,
      b |-> <<Flag(f.is_file), Flag(f.outline), Flag(f.xml), Flag(f.translated)>>] :
        info \in {NewEntry} \cup KnownEntries,
        f \in [is_file : BOOLEAN, outline : BOOLEAN, xml : BOOLEAN,
               translated : BOOLEAN]}

MaxRelated == 2

\* batch_02_rename.find_related_files lines 77-86: every element is the str
\* os.path.join(root, file); its file name carries a target suffix or not
RelatedFiles == {"str_target", "str_other"}

\* batch.py line 480: related_pdf.name exists on a Path, not on a str
HasName(f) == f \in {"path_target", "path_other"}

\* _utils.is_target_file on the file name
is_target_file(f) == f \in {"str_target", "path_target"}

\* where the write into a target fails
ImportFailures == {"none", "parse", "open", "set_toc", "save"}

\* pdf_import_toc_xml lines 561-590: a missing tree returns False; any
\* exception of the body is logged and True is returned
pdf_import_toc_xml(tree, fail) ==
    IF tree = "missing"
    THEN [ret |-> FALSE, saved |-> FALSE, logged |-> FALSE, raised |-> FALSE]
    ELSE IF fail = "none"
    THEN [ret |-> TRUE, saved |-> TRUE, logged |-> FALSE, raised |-> FALSE]
    ELSE [ret |-> TRUE, saved |-> FALSE, logged |-> TRUE, raised |-> FALSE]

\* batch.py lines 479-482: the loop over relate_files from element k on;
\* fails[k] is where the write into element k would fail
RECURSIVE WriteTargets(_, _, _, _)
WriteTargets(related, fails, k, acc) ==
    IF k > Len(related) THEN acc
    ELSE IF ~HasName(related[k]) THEN [acc EXCEPT !.raised = TRUE]
    ELSE IF is_target_file(related[k])
    THEN WriteTargets(related, fails, k + 1,
            [acc EXCEPT !.attempted = @ \cup {k},
                        !.logged = IF pdf_import_toc_xml("exists", fails[k]).logged
                                   THEN @ \cup {k} ELSE @])
    ELSE WriteTargets(related, fails, k + 1, acc)

ImportCalls ==
    {[fn |-> "import", a |-> <<tree>>, b |-> <<fail>>] :
        tree \in {"exists", "missing"}, fail \in ImportFailures}

\* the related files of a document and where the write into each would fail
WriteCalls ==
    {[fn |-> "write_targets", a |-> c[1], b |-> c[2]] :
        c \in {d \in SeqsUpTo(RelatedFiles, MaxRelated) \X SeqsUpTo(ImportFailures, MaxRelated) :
                  Len(d[1]) = Len(d[2])}}

\* the calls on texts; RoundTripCalls are the calls on outlines
Calls ==
    NoteCalls \cup FinalizeCalls \cup ParseCalls \cup FormatCalls \cup PartCalls
        \cup ImportCalls \cup WriteCalls \cup CleanCalls

InitCalls ==
    /\ RunIdle
    /\ SweepIdle
    /\ call \in Calls \/ call \in RoundTripCalls \/ call \in ReplaceCalls
          \/ call \in PhaseCalls
    /\ out = E
    /\ PairIdle

\* _utils.has_explanatory_note(src, trans), as the callers test its value
CallDetector ==
    /\ call.fn = "has_explanatory_note"
    /\ out = E
    /\ out' = <<has_explanatory_note(call.a, call.b)>>
    /\ UNCHANGED call
    /\ UNCHANGED <<runVars, sweepVars, pairVars>>

\* translate_line_by_line lines 413, 424-430: the entry call.a is finalized
\* with the translation call.b
CallFinalize ==
    /\ call.fn = "finalize"
    /\ out = E
    /\ out' = <<FinalText(call.a, call.b)>>
    /\ UNCHANGED call
    /\ UNCHANGED <<runVars, sweepVars, pairVars>>

\* export_toc_to_xml lines 497-517 on the outline call.a, then
\* pdf_import_toc_xml lines 564-573 on the tree
CallRoundTrip ==
    /\ call.fn = "roundtrip"
    /\ out = E
    /\ out' = <<ImportTree(ExportTree(call.a))>>
    /\ UNCHANGED call
    /\ UNCHANGED <<runVars, sweepVars, pairVars>>

\* deep_clean_title(text) on the name call.a
CallClean ==
    /\ call.fn = "clean"
    /\ out = E
    /\ out' = <<deep_clean_title(call.a)>>
    /\ UNCHANGED call
    /\ UNCHANGED <<runVars, sweepVars, pairVars>>

\* replace_bookmark_names_by_order lines 531-554 on the tree call.a, with the
\* lines call.b[1] of the content file and call.b[2] of the translation file
CallReplace ==
    /\ call.fn = "replace"
    /\ out = E
    /\ out' = IF Aligned(call.b[1], call.b[2])
              THEN <<[ok |-> TRUE, tree |-> ReplaceNames(call.a, call.b[1], call.b[2])]>>
              ELSE <<[ok |-> FALSE, tree |-> E]>>
    /\ UNCHANGED call
    /\ UNCHANGED <<runVars, sweepVars, pairVars>>

\* parse_toc_triple(line) on the line call.a
CallParse ==
    /\ call.fn = "parse"
    /\ out = E
    /\ out' = <<parse_toc_triple(call.a)>>
    /\ UNCHANGED call
    /\ UNCHANGED <<runVars, sweepVars, pairVars>>

\* _fmt_prefix(typ, num) on call.a and call.b
CallFormat ==
    /\ call.fn = "format"
    /\ out = E
    /\ out' = <<_fmt_prefix(call.a, call.b)>>
    /\ UNCHANGED call
    /\ UNCHANGED <<runVars, sweepVars, pairVars>>

\* pdf_import_toc_xml(toc_trans_xml, tgt_pdf)
CallImport ==
    /\ call.fn = "import"
    /\ out = E
    /\ out' = <<pdf_import_toc_xml(call.a[1], call.b[1])>>
    /\ UNCHANGED call
    /\ UNCHANGED <<runVars, sweepVars, pairVars>>

\* batch.py lines 477-482: the translated tree is written into the related
\* files call.a
CallWriteTargets ==
    /\ call.fn = "write_targets"
    /\ out = E
    /\ out' = <<WriteTargets(call.a, call.b, 1,
                             [attempted |-> {}, logged |-> {}, raised |-> FALSE])>>
    /\ UNCHANGED call
    /\ UNCHANGED <<runVars, sweepVars, pairVars>>

\* batch.py lines 443-487: step 3 of the main loop for the document call.a
CallTocPhase ==
    /\ call.fn = "toc_phase"
    /\ out = E
    /\ out' = <<TocPhase(EntryOf(call.a), FilesOf(call.b))>>
    /\ UNCHANGED call
    /\ UNCHANGED <<runVars, sweepVars, pairVars>>

NextCalls ==
    \/ CallDetector
    \/ CallFinalize
    \/ CallRoundTrip
    \/ CallParse
    \/ CallFormat
    \/ CallImport
    \/ CallWriteTargets
    \/ CallClean
    \/ CallReplace
    \/ CallTocPhase

SpecCalls == InitCalls /\ [][NextCalls]_vars

-----------------------------------------------------------------------------
(* batch_03_toc.translate_toc: two calls over one PROCESSING_DIR           *)

Runs == {1, 2}

PROCESSING_DIR == <<"p", "r", "o", "c", "e", "s", "s", "i", "n", "g", "/">>

TOC_DIR == <<"t", "o", "c", "/">>

\* values of prefix: unrelated ones, and one that continues another with the
\* beginning of a file suffix
Prefixes ==
    {<<"a", "b">>,
     <<"a", "b", "_", "t", "r", "a", "n", "s">>,
     <<"b">>}

\* lines 452-458: what follows {prefix} in the file name of each key
Suffix(name) ==
    CASE name = "toc_xml_file" -> <<"_", "b", "k", "m", ".", "x", "m", "l">>
      [] name = "content_file" -> <<"_", "c", "o", "n", "t", "e", "n", "t", ".", "t", "x", "t">>
      [] name = "prompt_file" -> <<"_", "p", "r", "o", "m", "p", "t", ".", "t", "x", "t">>
      [] name = "translation_file" -> <<"_", "t", "r", "a", "n", "s", ".", "t", "x", "t">>
      [] name = "trans_xml_file" -> <<"_", "t", "r", "a", "n", "s", ".", "x", "m", "l">>

PathOf_unscoped(dir, prefix, name) == dir \o Suffix(name)

\* lines 452-458: PROCESSING_DIR / f"{prefix}_bkm.xml" and the four others;
\* line 667: TOC_DIR / trans_xml_file.name
PathOf(dir, prefix, name) == dir \o prefix \o Suffix(name)

\* line 485: the dict build_files_config returns
cfg(prefix) == [name \in FileNames |-> PathOf(PROCESSING_DIR, prefix, name)]

\* line 667
tgt_xml(prefix) == PathOf(TOC_DIR, prefix, "trans_xml_file")

OwnPaths(prefix) == {cfg(prefix)[name] : name \in FileNames} \cup {tgt_xml(prefix)}

Gone == [exists |-> FALSE, age |-> 0, origin |-> {}]

\* a file written now; origin is the set of documents its text derives from
Written(who) == [exists |-> TRUE, age |-> 0, origin |-> who]

\* what earlier calls on the same document may have left behind: nothing,
\* everything and recent, everything with an expired content file, only the
\* guide and the translations
Leftovers ==
    {[name \in FileNames |-> Missing],
     [name \in FileNames |-> Fresh],
     [name \in FileNames |->
        IF name = "content_file"
        THEN [exists |-> TRUE, age |-> HOURS_RECENT + 1] ELSE Fresh],
     [name \in FileNames |->
        IF name \in {"prompt_file", "translation_file"} THEN Fresh ELSE Missing]}

\* the steps of translate_toc, in the order of its body
Phases ==
    <<"build_files_config", "export_toc_to_xml", "content_file",
      "generate_translation_guide", "translate_line_by_line",
      "replace_bookmark_names_by_order", "copy">>

\* lines 471-474: some critical file exists and is not recent
AnyExpired(d, c) ==
    \E k \in 1..Len(critical_files) : IsExpired(d[c[critical_files[k]]])

\* the files after one step of translate_toc(file r, p)
PhaseEffect(d, r, p, phase) ==
    LET c == cfg(p)
    IN  CASE phase = "build_files_config" ->
               \* lines 476-483
               IF AnyExpired(d, c)
               THEN [q \in DOMAIN d |->
                       IF q \in {c[name] : name \in FileNames} THEN Gone ELSE d[q]]
               ELSE d
          [] phase = "export_toc_to_xml" ->
               \* lines 490-521: the outline of the PDF
               [d EXCEPT ![c.toc_xml_file] = Written({r})]
          [] phase = "content_file" ->
               \* lines 627-639
               IF is_file_recent(d[c.content_file])
               THEN d
               ELSE [d EXCEPT ![c.content_file] = Written(d[c.toc_xml_file].origin)]
          [] phase = "generate_translation_guide" ->
               \* lines 356-372
               IF d[c.prompt_file].exists
               THEN d
               ELSE [d EXCEPT ![c.prompt_file] = Written(d[c.content_file].origin)]
          [] phase = "translate_line_by_line" ->
               \* lines 383-389 and 645-657
               [d EXCEPT ![c.translation_file] =
                   Written(d[c.content_file].origin \cup d[c.prompt_file].origin
                           \cup d[c.translation_file].origin)]
          [] phase = "replace_bookmark_names_by_order" ->
               \* lines 531-552
               [d EXCEPT ![c.trans_xml_file] =
                   Written(d[c.content_file].origin \cup d[c.translation_file].origin
                           \cup d[c.toc_xml_file].origin)]
          [] phase = "copy" ->
               \* lines 666-671
               IF d[c.trans_xml_file].exists
               THEN [d EXCEPT ![tgt_xml(p)] = Written(d[c.trans_xml_file].origin)]
               ELSE d

\* the paths that step tests, reads, writes or removes
PhaseTouched(d, p, phase) ==
    LET c == cfg(p)
    IN  CASE phase = "build_files_config" ->
               {c[critical_files[k]] : k \in 1..Len(critical_files)}
               \cup IF AnyExpired(d, c) THEN {c[name] : name \in FileNames} ELSE {}
          [] phase = "export_toc_to_xml" -> {c.toc_xml_file}
          [] phase = "content_file" ->
               {c.content_file}
               \cup IF is_file_recent(d[c.content_file]) THEN {} ELSE {c.toc_xml_file}
          [] phase = "generate_translation_guide" ->
               {c.prompt_file}
               \cup IF d[c.prompt_file].exists THEN {} ELSE {c.content_file}
          [] phase = "translate_line_by_line" -> {c.content_file, c.translation_file}
          [] phase = "replace_bookmark_names_by_order" ->
               {c.content_file, c.translation_file, c.toc_xml_file, c.trans_xml_file}
          [] phase = "copy" ->
               \* lines 666-679
               {c[name] : name \in FileNames}
               \cup IF d[c.trans_xml_file].exists THEN {tgt_xml(p)} ELSE {}

\* translate_toc(file r, p) from its first step to its return, with no other
\* call under way
RECURSIVE Alone(_, _, _, _)
Alone(d, r, p, k) ==
    IF k > Len(Phases) THEN d ELSE Alone(PhaseEffect(d, r, p, Phases[k]), r, p, k + 1)

\* two documents with different prefixes; what is on disk under a prefix was
\* left by earlier calls on the same document
PairInit ==
    /\ prefixes \in {pp \in Prefixes \X Prefixes : pp[1] # pp[2]}
    /\ \E left \in [Runs -> Leftovers] :
          disk = [q \in UNION {OwnPaths(prefixes[r]) : r \in Runs} |->
                    LET r == CHOOSE r \in Runs : q \in OwnPaths(prefixes[r])
                        at == {name \in FileNames : cfg(prefixes[r])[name] = q}
                    IN  IF at = {} \/ ~left[r][CHOOSE name \in at : TRUE].exists
                        THEN Gone
                        ELSE [exists |-> TRUE,
                              age |-> left[r][CHOOSE name \in at : TRUE].age,
                              origin |-> {r}]]
    /\ diskAtEntry = disk
    /\ ppc = [r \in Runs |-> 0]
    /\ touched = [r \in Runs |-> {}]
    /\ result = [r \in Runs |-> E]
    /\ overlapped = FALSE

InitPair == RunIdle /\ SweepIdle /\ CallIdle /\ PairInit

\* call r takes its step k
PairStep(r, k) ==
    /\ ppc[r] = k - 1
    /\ disk' = PhaseEffect(disk, r, prefixes[r], Phases[k])
    /\ touched' = [touched EXCEPT ![r] = @ \cup PhaseTouched(disk, prefixes[r], Phases[k])]
    /\ ppc' = [ppc EXCEPT ![r] = k]
    /\ result' = IF k = Len(Phases)
                 THEN [result EXCEPT ![r] = <<cfg(prefixes[r]).trans_xml_file>>]
                 ELSE result
    /\ overlapped' = (overlapped
                      \/ \E o \in Runs \ {r} : ppc[o] > 0 /\ ppc[o] < Len(Phases))
    /\ UNCHANGED <<prefixes, diskAtEntry>>
    /\ UNCHANGED <<runVars, sweepVars, callVars>>

\* line 617
PairBuild == \E r \in Runs : PairStep(r, 1)

\* line 623
PairExport == \E r \in Runs : PairStep(r, 2)

\* lines 627-639
PairContent == \E r \in Runs : PairStep(r, 3)

\* line 642
PairGuide == \E r \in Runs : PairStep(r, 4)

\* lines 645-657
PairTranslate == \E r \in Runs : PairStep(r, 5)

\* line 661
PairReplace == \E r \in Runs : PairStep(r, 6)

\* lines 666-681
PairCopy == \E r \in Runs : PairStep(r, 7)

NextPair ==
    \/ PairBuild
    \/ PairExport
    \/ PairContent
    \/ PairGuide
    \/ PairTranslate
    \/ PairReplace
    \/ PairCopy

SpecPair == InitPair /\ [][NextPair]_vars

-----------------------------------------------------------------------------
(* Properties of concurrent translate_toc calls                            *)

\* C23: two translate_toc calls with different prefixes, their steps
\* interleaved in any order, never test, read, write or remove the same file,
\* and when a call has returned, its files and its result are what the call
\* leaves when it runs with no other call under way.
C23_RunsIsolated ==
    ppc # E =>
        /\ touched[1] \cap touched[2] = {}
        /\ \A r \in Runs :
              ppc[r] = Len(Phases) =>
                  /\ \A q \in OwnPaths(prefixes[r]) :
                        disk[q] = Alone(diskAtEntry, r, prefixes[r], 1)[q]
                  /\ result[r] = <<cfg(prefixes[r]).trans_xml_file>>
                  /\ \A o \in Runs \ {r} : result[o] # result[r]

\* both calls have returned after overlapping, one prefix continues the
\* other, and the first call found an expired file and removed what it had
C23_Witness ==
    /\ ppc # E
    /\ \A r \in Runs : ppc[r] = Len(Phases)
    /\ overlapped
    /\ StartsWith(prefixes[2], prefixes[1])
    /\ IsExpired(diskAtEntry[cfg(prefixes[1]).content_file])
    /\ diskAtEntry[cfg(prefixes[2]).prompt_file].exists
    /\ \A r \in Runs : disk[tgt_xml(prefixes[r])].origin = {r}

----------------------------------------------------------------------------
(* Properties of the text functions                                        *)

\* text holds none of the indicator patterns of has_explanatory_note_re
NoIndicator(text) ==
    /\ \A p \in NotePatterns : ~Contains(text, p)
    /\ ~ContainsThen(text, <<"<wu>", "<xu>">>, <<"<shuo>", "<ming>">>)
    /\ ~ContainsThen(text, <<"<an>", "<zhao>">>, <<"<zhi>", "<dao>">>)

\* C11: has_explanatory_note is true when the source has one line and the
\* translation more than one, and false for a one-line translation that holds
\* none of the indicator patterns.
C11_DetectorFlags ==
    (call.fn = "has_explanatory_note" /\ out # E)
        => /\ (~Contains(call.a, <<"\n">>) /\ Contains(call.b, <<"\n">>))
                 => out[1] = TRUE
           /\ (~Contains(call.b, <<"\n">>) /\ NoIndicator(call.b))
                 => out[1] = FALSE
           /\ call.b \in CleanOneLine => out[1] = FALSE

\* "Dressing for Success" with a two-line result holding a note is flagged
C11_Witness ==
    /\ call = [fn |-> "has_explanatory_note", a |-> Src_Dressing, b |-> Tr_TwoLineNote]
    /\ out = <<TRUE>>

\* C13 as stated: "Chapter 7: Distributed Consensus" with its bare title
\* translated is finalized with spaces around the padded number.
C13_SpacedPrefix ==
    (call = [fn |-> "finalize", a |-> T_Distributed, b |-> Tr_Distributed] /\ out # E)
        => out[1] = <<"<di>", " ", "0", "7", " ", "<zhang>", " ">> \o Tr_Distributed

\* C13: "Chapter 7: Distributed Consensus" with its bare title translated is
\* finalized as the prefix without inner spaces, the number padded to two
\* digits, one space and the translated title.
C13_CompactPrefix ==
    (call = [fn |-> "finalize", a |-> T_Distributed, b |-> Tr_Distributed] /\ out # E)
        => out[1] = <<"<di>", "0", "7", "<zhang>", " ">> \o Tr_Distributed

\* the entry has been finalized
C13_Witness ==
    /\ call = [fn |-> "finalize", a |-> T_Distributed, b |-> Tr_Distributed]
    /\ out = << <<"<di>", "0", "7", "<zhang>", " ", "<fen>", "<bu2>", "<shi6>",
                  "<gong>", "<shi3>">> >>

\* C14: a translation of the bare title that begins with an echoed chapter
\* prefix, joined by a colon or by a space, is finalized with the numbering
\* prefix exactly once.
C14_EchoStrippedOnce ==
    (/\ call.fn = "finalize"
     /\ call.a = T_Distributed
     /\ call.b \in ColonEchoes \cup SpaceEchoes
     /\ out # E)
        => out[1] = <<"<di>", "0", "7", "<zhang>", " ">> \o Tr_Distributed

\* the entries of an outline of RoundTripCalls that are not a cover
NotCover(toc) == SelectSeq(toc, LAMBDA e : e.title = <<"A">>)

\* C20: exporting an outline to the snapshot tree and reading the tree back
\* in pre-order yields the kept entries in their original order, each with
\* its level and its page.
C20_RoundTrip ==
    (call.fn = "roundtrip" /\ out # E)
        => /\ Len(out[1]) = Len(NotCover(call.a))
           /\ \A k \in 1..Len(out[1]) :
                 /\ out[1][k].level = NotCover(call.a)[k].level
                 /\ out[1][k].page = NotCover(call.a)[k].page
                 /\ out[1][k].name = NotCover(call.a)[k].title

\* an outline with a cover entry, a jump from level 1 to level 3 and a
\* two-digit page has been exported and read back
C20_Witness ==
    /\ call.fn = "roundtrip"
    /\ Len(call.a) = 3
    /\ call.a[1].title # <<"A">>
    /\ call.a[2].level = 1
    /\ call.a[3].level = 3
    /\ call.a[3].page = 12
    /\ Len(out) = 1
    /\ Len(out[1]) = 2

\* C24: the loop over the related files of a document ends without an
\* exception, with the write attempted into every target file, and a write
\* that failed is logged
C24_TargetsAttempted ==
    (call.fn = "write_targets" /\ out # E)
        => /\ ~out[1].raised
           /\ out[1].attempted = {k \in DOMAIN call.a : is_target_file(call.a[k])}
           /\ out[1].logged = {k \in out[1].attempted : call.b[k] # "none"}

\* C25: parse_toc_triple returns a triple for every line; a title without
\* numbering is returned as it is, with an empty type and an empty number,
\* and so is the bare title of a parsed line when it is parsed again
C25_TotalIdempotent ==
    (call.fn = "parse" /\ out # E)
        => /\ DOMAIN out[1] = {"typ", "num", "title"}
           /\ call.a \in PlainTitles
                 => out[1] = [typ |-> E, num |-> E, title |-> call.a]
           /\ out[1].title \in PlainTitles
                 => parse_toc_triple(out[1].title)
                       = [typ |-> E, num |-> E, title |-> out[1].title]
           /\ (parse_toc_triple(out[1].title).typ = E
                  /\ parse_toc_triple(out[1].title).num = E)
                 => parse_toc_triple(out[1].title).title = out[1].title

\* the bare title of "Chapter 7: Distributed Consensus" parses to itself
C25_Witness ==
    /\ call.fn = "parse"
    /\ call.a = T_Distributed
    /\ Len(out) = 1
    /\ out[1].title \in PlainTitles
    /\ parse_toc_triple(out[1].title).title = out[1].title

\* C26: a chapter number of digits is formatted with at least two digits,
\* any other chapter number as it is; ("chapter", "7") gives the prefix
\* with 07
C26_ChapterFormat ==
    (call.fn = "format" /\ out # E /\ Lower(call.a) = <<"c", "h", "a", "p", "t", "e", "r">>)
        => /\ call.b \in {<<"7">>, <<"0", "7">>, <<"0", "0", "7">>}
                 => out[1] = <<"<di>", "0", "7", "<zhang>">>
           /\ call.b = <<"1", "2">> => out[1] = <<"<di>", "1", "2", "<zhang>">>
           /\ call.b = <<"1", "0", "0">> => out[1] = <<"<di>", "1", "0", "0", "<zhang>">>
           /\ (\E k \in DOMAIN call.b : call.b[k] \notin Digit)
                 => out[1] = <<"<di>">> \o call.b \o <<"<zhang>">>

C26_Witness ==
    /\ call = [fn |-> "format", a |-> <<"c", "h", "a", "p", "t", "e", "r">>, b |-> <<"7">>]
    /\ out = <<<<"<di>", "0", "7", "<zhang>">>>>

\* an outline as PyMuPDF gives it: the first level is 1 and no level is
\* more than one above the level before it
WellNested(toc) ==
    toc = E \/ (/\ toc[1].level = 1
                /\ \A k \in 2..Len(toc) : toc[k].level <= toc[k - 1].level + 1)

\* the nearest element before k with a strictly smaller level, 0 for none
NearestSmaller(items, k) ==
    IF \E j \in 1..(k - 1) : IntOf(items[j].LEVEL) < IntOf(items[k].LEVEL)
    THEN CHOOSE j \in 1..(k - 1) :
            /\ IntOf(items[j].LEVEL) < IntOf(items[k].LEVEL)
            /\ \A h \in (j + 1)..(k - 1) : IntOf(items[h].LEVEL) >= IntOf(items[k].LEVEL)
    ELSE 0

\* C27: in the exported tree of a well-nested outline every element is a
\* child of the nearest kept entry before it with a strictly smaller level,
\* or of the root, so that no element has a level less than or equal to
\* its parent's
C27_LevelKeyedNesting ==
    (call.fn = "roundtrip" /\ out # E /\ WellNested(call.a))
        => \A k \in DOMAIN ExportTree(call.a) :
              /\ ExportTree(call.a)[k].parent = NearestSmaller(ExportTree(call.a), k)
              /\ ExportTree(call.a)[k].parent # 0
                    => IntOf(ExportTree(call.a)[ExportTree(call.a)[k].parent].LEVEL)
                          < IntOf(ExportTree(call.a)[k].LEVEL)

\* C28: a line without a keyword and without a leading token, or with a
\* keyword that no token follows, is returned trimmed as the bare title,
\* with an empty type and an empty number
C28_Unstructured ==
    (call.fn = "parse" /\ out # E)
        => \A l \in UnstructuredLines \cup {E}, pre \in {E, <<" ">>},
              post \in {E, <<" ", "\t">>} :
              call.a = pre \o l \o post
                 => out[1] = [typ |-> E, num |-> E, title |-> l]

\* "Chapter IV: Title" with white space around it: a keyword, no token
C28_Witness ==
    /\ call.fn = "parse"
    /\ call.a = <<" ">> \o <<"C", "h", "a", "p", "t", "e", "r", " ", "I", "V", ":", " ", "T", "i", "t", "l", "e">> \o <<" ", "\t">>
    /\ out = <<[typ |-> E, num |-> E, title |-> <<"C", "h", "a", "p", "t", "e", "r", " ", "I", "V", ":", " ", "T", "i", "t", "l", "e">>]>>

C30_FirstPatternWins ==
    (call.fn = "parse" /\ out # E)
        => \A k \in DOMAIN NumberTokens :
              \A tok \in NumberTokens[k], kw \in LineKeywords \cup {E},
                 ws \in KeywordSpaces \cup {E}, sep \in TokenSeps, ti \in BareTitles :
                 (call.a = KeywordLine(kw, ws, tok, sep, ti) /\ (kw = E <=> ws = E))
                    => /\ out[1].num = tok
                       /\ FirstPattern(tok \o sep \o ti) = k

\* "1.2.2 Distributed Consensus": the integer pattern matches "1" alone,
\* the dotted pattern is the first that matches with what follows
C30_Witness ==
    /\ call.fn = "parse"
    /\ call.a = <<"1", ".", "2", ".", "2">> \o <<" ">> \o <<"D", "i", "s", "t", "r", "i", "b", "u", "t", "e", "d", " ", "C", "o", "n", "s", "e", "n", "s", "u", "s">>
    /\ Len(out) = 1
    /\ out[1].num = <<"1", ".", "2", ".", "2">>
    /\ NumPatternEnd(call.a, 1) # 0
    /\ FirstPattern(call.a) = 2

\* C31: in every triple parse_toc_triple returns, a type comes with a number,
\* and a number comes without a type only when no keyword matched the line
C31_TypeNeedsNumber ==
    (call.fn = "parse" /\ out # E)
        => /\ out[1].typ # E => out[1].num # E
           /\ (out[1].num # E /\ out[1].typ = E) => FirstKeyword(Strip(call.a)) = 0
           /\ out[1].typ # E => FirstKeyword(Strip(call.a)) # 0

\* "1.2.2: A Brief History": a number and no keyword
C31_Witness ==
    /\ call.fn = "parse"
    /\ call.a = KeywordLine(E, E, <<"1", ".", "2", ".", "2">>, <<":", " ">>,
                            <<"A", " ", "B", "r", "i", "e", "f", " ", "H", "i", "s", "t", "o", "r", "y">>)
    /\ out # E
    /\ out[1].typ = E
    /\ out[1].num = <<"1", ".", "2", ".", "2">>

\* C32: for the type part and a number written in digits with value n below
\* 100, the prefix holds the word of n: the word of the ones table for n up to
\* 10, otherwise the word of the tens digit (left out when it is 1), the word
\* for ten and the word of the units digit (left out when it is 0); a number
\* of 100 or more, or one that is not all digits, is written as it came
C32_PartNumberWords ==
    (call.fn = "format" /\ out # E /\ Lower(call.a) = <<"p", "a", "r", "t">>)
        => LET ones == <<"<n0>", "<n1>", "<n2>", "<n3>", "<n4>", "<n5>", "<n6>",
                         "<n7>", "<n8>", "<n9>", "<n10>">>
               n == IntOf(call.b)
               word == IF n <= 10 THEN <<ones[n + 1]>>
                       ELSE (IF n \div 10 = 1 THEN E ELSE <<ones[(n \div 10) + 1]>>)
                            \o <<ones[11]>>
                            \o (IF n % 10 = 0 THEN E ELSE <<ones[(n % 10) + 1]>>)
           IN  IF (\A k \in DOMAIN call.b : call.b[k] \in Digit) /\ n <= 99
               THEN out[1] = <<"<di>">> \o word \o <<"<bu>", "<fen>">>
               ELSE out[1] = <<"<di>">> \o call.b \o <<"<bu>", "<fen>">>

\* "Part", "12": the tens word is left out
C32_Witness ==
    /\ call = [fn |-> "format", a |-> <<"P", "a", "r", "t">>, b |-> <<"1", "2">>]
    /\ out = << <<"<di>", "<n10>", "<n2>", "<bu>", "<fen>">> >>

\* C34: deep_clean_title applied to its own result returns that result
C34_CleanIdempotent ==
    (call.fn = "clean" /\ out # E) => deep_clean_title(out[1]) = out[1]

\* C37: when the first kept entry has level 1 and no kept entry is more than
\* one level above the kept entry before it, then after an entry of level L
\* is attached the stack holds the root and, for each level 1..L, one element
\* of that level, the last being the entry; and the parent of every element
\* is the root for level 1 and an element one level lower otherwise
C37_StackPerLevel ==
    (call.fn = "roundtrip" /\ out # E /\ WellNested(Kept(call.a)))
        => \A k \in DOMAIN Kept(call.a) :
              /\ Len(StackAfter(Kept(call.a), k)) = Kept(call.a)[k].level + 1
              /\ StackAfter(Kept(call.a), k)[1] = 0
              /\ StackAfter(Kept(call.a), k)[Kept(call.a)[k].level + 1] = k
              /\ \A l \in 1..Kept(call.a)[k].level :
                    IntOf(ExportTree(call.a)[StackAfter(Kept(call.a), k)[l + 1]].LEVEL) = l
              /\ ExportTree(call.a)[k].parent
                    = StackAfter(Kept(call.a), k)[Kept(call.a)[k].level]
              /\ IF Kept(call.a)[k].level = 1
                 THEN ExportTree(call.a)[k].parent = 0
                 ELSE /\ ExportTree(call.a)[k].parent # 0
                      /\ IntOf(ExportTree(call.a)[ExportTree(call.a)[k].parent].LEVEL)
                            = Kept(call.a)[k].level - 1

\* three kept entries of levels 1, 2 and 1: the last entry pops two elements
\* and hangs from the root
C37_Witness ==
    /\ call.fn = "roundtrip"
    /\ out # E
    /\ Len(call.a) = 3
    /\ Len(Kept(call.a)) = 3
    /\ [k \in 1..3 |-> call.a[k].level] = <<1, 2, 1>>
    /\ StackAfter(Kept(call.a), 2) = <<0, 1, 2>>
    /\ StackAfter(Kept(call.a), 3) = <<0, 3>>
    /\ ExportTree(call.a)[3].parent = 0

\* C39: in the tree replace_bookmark_names_by_order writes, an element whose
\* cleaned original title is a content line carries the translation of that
\* line (of its last occurrence), even when that translation is a content
\* line itself; every other element carries its original title
C39_ReplacedOnce ==
    (call.fn = "replace" /\ out # E /\ out[1].ok)
        => /\ DOMAIN out[1].tree = DOMAIN call.a
           /\ \A k \in DOMAIN call.a :
                 IF \E j \in DOMAIN call.b[1] :
                       call.b[1][j] = Strip(deep_clean_title(call.a[k].NAME))
                 THEN \E j \in DOMAIN call.b[1] :
                         /\ call.b[1][j] = Strip(deep_clean_title(call.a[k].NAME))
                         /\ \A h \in DOMAIN call.b[1] :
                               call.b[1][h] = Strip(deep_clean_title(call.a[k].NAME)) => h <= j
                         /\ out[1].tree[k].NAME = call.b[2][j]
                 ELSE out[1].tree[k].NAME = call.a[k].NAME

\* A is translated B and B is translated C: the element A becomes B and not
\* C, and the element Z, no content line, stays Z
C39_Witness ==
    /\ call.fn = "replace"
    /\ call.b = << << <<"A">>, <<"B">> >>, << <<"B">>, <<"C">> >> >>
    /\ Len(call.a) = 2
    /\ call.a[1].NAME = <<"A">>
    /\ call.a[2].NAME = <<"Z">>
    /\ out # E
    /\ out[1].ok
    /\ out[1].tree[1].NAME = <<"B">>
    /\ out[1].tree[2].NAME = <<"Z">>

\* C40: in the main loop a document whose file has no outline and whose
\* outline translation was not completed before is recorded with
\* keyinfo.has_toc false, and translate_toc is not called for it
C40_NoOutlineSkipped ==
    (/\ call.fn = "toc_phase"
     /\ out # E
     /\ FilesOf(call.b).is_file
     /\ ~FilesOf(call.b).outline
     /\ ~EntryOf(call.a).trans_toc)
        => /\ ~out[1].has_toc
           /\ ~out[1].invoked

====
